---- MODULE Spec2Model ----
(***************************************************************************)
(* Glosify: the spaced-repetition scheduler (SM-2 variant) behind the      *)
(* review endpoints, the due-card selection and the reset script.          *)
(*                                                                         *)
(* Representation.  ease factors are Python floats that only ever take     *)
(* values 2.5 +/- multiples of 0.05; they are kept here as integers in     *)
(* hundredths (2.5 = 250, 1.3 = 130, 3.0 = 300, 0.2 = 20, 0.15 = 15) and   *)
(* int(x) of a non-negative product is the integer quotient.  Timestamps   *)
(* (datetime.utcnow()) are integers counted in days, so that               *)
(* timedelta(days=interval) is the addition of interval.                   *)
(***************************************************************************)
EXTENDS Integers, FiniteSets, Sequences, TLC

\* ------------------------------------------------------------------ bounds
MaxTime == 1
MaxReviews == 2
MaxResets == 1
MaxCopies == 1
MaxDeepReviews == 7
MaxDeepResets == 2
MaxInFlight == 2
MaxConcReviews == 2
MaxEaseIn == 310
MaxIntervalIn == 12
MaxRepsIn == 3
MaxFolders == 3
MaxImports == 1
MaxWords == 2

\* ------------------------------------------------------- program constants
Users == {1, 2}
Directions == {"forward", "reverse"}
Modes == {"words", "sentences"}
NULL == -1

Max(a, b) == IF a >= b THEN a ELSE b
Min(a, b) == IF a <= b THEN a ELSE b

\* Python's `x or d` on a number column: None and 0 are falsy.
Or(x, d) == IF x = NULL \/ x = 0 THEN d ELSE x
\* Python's `x or d` on a datetime column: only None is falsy.
OrDate(x, d) == IF x = NULL THEN d ELSE x

\* ------------------------------------------------------------ calculate_sm2
\* Faulty variants of the Again branch.
sm2_again_keeps_repetitions(ease_factor, interval, repetitions) ==
    [ease_factor |-> Max(130, ease_factor - 20), interval |-> 0,
     repetitions |-> repetitions]

sm2_again_no_floor(ease_factor, interval, repetitions) ==
    [ease_factor |-> ease_factor - 20, interval |-> 0, repetitions |-> 0]

sm2_again_keeps_interval(ease_factor, interval, repetitions) ==
    [ease_factor |-> Max(130, ease_factor - 20), interval |-> interval,
     repetitions |-> 0]

sm2_again(ease_factor, interval, repetitions) ==
    [ease_factor |-> Max(130, ease_factor - 20), interval |-> 0, repetitions |-> 0]

\* Faulty variants of the Hard branch.
sm2_hard_scaled_by_ease(ease_factor, interval, repetitions) ==
    [ease_factor |-> Max(130, ease_factor - 15),
     interval    |-> IF repetitions = 0 THEN 1
                     ELSE Max(1, (interval * ease_factor) \div 100),
     repetitions |-> repetitions + 1]

sm2_hard_no_increment(ease_factor, interval, repetitions) ==
    [ease_factor |-> Max(130, ease_factor - 15),
     interval    |-> IF repetitions = 0 THEN 1 ELSE Max(1, (interval * 12) \div 10),
     repetitions |-> repetitions]

sm2_hard_no_minimum(ease_factor, interval, repetitions) ==
    [ease_factor |-> Max(130, ease_factor - 15),
     interval    |-> IF repetitions = 0 THEN 1 ELSE (interval * 12) \div 10,
     repetitions |-> repetitions + 1]

sm2_hard(ease_factor, interval, repetitions) ==
    [ease_factor |-> Max(130, ease_factor - 15),
     interval    |-> IF repetitions = 0 THEN 1 ELSE Max(1, (interval * 12) \div 10),
     repetitions |-> repetitions + 1]

\* Faulty variants of the Good branch.
sm2_good_no_increment(ease_factor, interval, repetitions) ==
    [ease_factor |-> ease_factor,
     interval    |-> IF repetitions = 0 THEN 1
                     ELSE IF repetitions = 1 THEN 6
                     ELSE (interval * ease_factor) \div 100,
     repetitions |-> repetitions]

sm2_good_without_ease(ease_factor, interval, repetitions) ==
    [ease_factor |-> ease_factor,
     interval    |-> IF repetitions = 0 THEN 1
                     ELSE IF repetitions = 1 THEN 6
                     ELSE interval * 2,
     repetitions |-> repetitions + 1]
\* Faulty variant: the second Good in a row gives three days.
sm2_good_second_is_three(ease_factor, interval, repetitions) ==
    [ease_factor |-> ease_factor,
     interval    |-> IF repetitions = 0 THEN 1
                     ELSE IF repetitions = 1 THEN 3
                     ELSE (interval * ease_factor) \div 100,
     repetitions |-> repetitions + 1]

sm2_good(ease_factor, interval, repetitions) ==
    [ease_factor |-> ease_factor,
     interval    |-> IF repetitions = 0 THEN 1
                     ELSE IF repetitions = 1 THEN 6
                     ELSE (interval * ease_factor) \div 100,
     repetitions |-> repetitions + 1]

\* Faulty variants of the Easy branch.
sm2_easy_uses_new_ease(ease_factor, interval, repetitions) ==
    [ease_factor |-> Min(300, ease_factor + 15),
     interval    |-> IF repetitions = 0 THEN 4
                     ELSE IF repetitions = 1 THEN 10
                     ELSE (interval * Min(300, ease_factor + 15) * 13) \div 1000,
     repetitions |-> repetitions + 1]

sm2_easy_no_ceiling(ease_factor, interval, repetitions) ==
    [ease_factor |-> ease_factor + 15,
     interval    |-> IF repetitions = 0 THEN 4
                     ELSE IF repetitions = 1 THEN 10
                     ELSE (interval * ease_factor * 13) \div 1000,
     repetitions |-> repetitions + 1]

sm2_easy(ease_factor, interval, repetitions) ==
    [ease_factor |-> Min(300, ease_factor + 15),
     interval    |-> IF repetitions = 0 THEN 4
                     ELSE IF repetitions = 1 THEN 10
                     ELSE (interval * ease_factor * 13) \div 1000,
     repetitions |-> repetitions + 1]

calculate_sm2(rating, ease_factor, interval, repetitions) ==
    IF rating = 1 THEN sm2_again(ease_factor, interval, repetitions)
    ELSE IF rating = 2 THEN sm2_hard(ease_factor, interval, repetitions)
    ELSE IF rating = 3 THEN sm2_good(ease_factor, interval, repetitions)
    ELSE IF rating = 4 THEN sm2_easy(ease_factor, interval, repetitions)
    ELSE [ease_factor |-> ease_factor, interval |-> interval, repetitions |-> repetitions]

\* ------------------------------------------------------------------- rows
Columns == {"ease_factor", "interval", "repetitions", "due_date",
            "ease_factor_reverse", "interval_reverse", "repetitions_reverse",
            "due_date_reverse"}

Word(quiz_id, t) ==
    [quiz_id |-> quiz_id,
     ease_factor |-> 250, interval |-> 0, repetitions |-> 0, due_date |-> t,
     ease_factor_reverse |-> 250, interval_reverse |-> 0,
     repetitions_reverse |-> 0, due_date_reverse |-> t]

Sentence(quiz_id, t) ==
    [quiz_id |-> quiz_id,
     ease_factor |-> 250, interval |-> 0, repetitions |-> 0, due_date |-> t,
     ease_factor_reverse |-> 250, interval_reverse |-> 0,
     repetitions_reverse |-> 0, due_date_reverse |-> t]

\* The direction-specific read of the review handlers.
review_fields(item, direction) ==
    IF direction = "reverse"
    THEN [ease_factor |-> Or(item.ease_factor_reverse, 250),
          interval    |-> Or(item.interval_reverse, 0),
          repetitions |-> Or(item.repetitions_reverse, 0)]
    ELSE [ease_factor |-> Or(item.ease_factor, 250),
          interval    |-> Or(item.interval, 0),
          repetitions |-> Or(item.repetitions, 0)]

\* Faulty variant: the reverse branch assigns the forward due_date column.
review_assign_shared_due_date(item, direction, r, due_date) ==
    IF direction = "reverse"
    THEN [item EXCEPT !.ease_factor_reverse = r.ease_factor,
                      !.interval_reverse = r.interval,
                      !.repetitions_reverse = r.repetitions,
                      !.due_date = due_date]
    ELSE [item EXCEPT !.ease_factor = r.ease_factor,
                      !.interval = r.interval,
                      !.repetitions = r.repetitions,
                      !.due_date = due_date]

\* The direction-specific attribute assignments of the review handlers.
review_assign(item, direction, r, due_date) ==
    IF direction = "reverse"
    THEN [item EXCEPT !.ease_factor_reverse = r.ease_factor,
                      !.interval_reverse = r.interval,
                      !.repetitions_reverse = r.repetitions,
                      !.due_date_reverse = due_date]
    ELSE [item EXCEPT !.ease_factor = r.ease_factor,
                      !.interval = r.interval,
                      !.repetitions = r.repetitions,
                      !.due_date = due_date]

\* Faulty variant: the UPDATE sets every scheduling column of the row to the
\* value the object of the session holds.
flush_all_columns(stored, loaded, modified) ==
    [k \in DOMAIN stored |-> IF k \in Columns THEN modified[k] ELSE stored[k]]

\* db.session.commit() of one modified object: the unit of work emits an
\* UPDATE that sets exactly the columns whose value differs from the value
\* loaded into the session; the other columns of the stored row are kept.
flush(stored, loaded, modified) ==
    [k \in DOMAIN stored |->
        IF k \in Columns /\ modified[k] # loaded[k] THEN modified[k] ELSE stored[k]]

\* get_anki_fields of api_get_anki_cards.
get_anki_fields(item, is_reverse, t) ==
    IF is_reverse
    THEN [ease_factor |-> Or(item.ease_factor_reverse, 250),
          interval    |-> Or(item.interval_reverse, 0),
          repetitions |-> Or(item.repetitions_reverse, 0),
          due_date    |-> OrDate(item.due_date_reverse, t)]
    ELSE [ease_factor |-> Or(item.ease_factor, 250),
          interval    |-> Or(item.interval, 0),
          repetitions |-> Or(item.repetitions, 0),
          due_date    |-> OrDate(item.due_date, t)]

\* ------------------------------------------------------------------ state
VARIABLES
    quiz,       \* table quiz: id -> [user_id]
    word,       \* table word: id -> row
    sentence,   \* table sentence: id -> row
    now,        \* the clock read by datetime.utcnow()
    resp,       \* the response of the last completed request or script run
    hist,       \* history of each card-direction (auxiliary)
    counts,     \* how many reviews / resets have run (bounds the model)
    reqs,       \* review requests in flight (overlapping-requests model)
    log,        \* the reviews committed so far, in commit order (auxiliary)
    sm2,        \* one call of calculate_sm2 (pure-function model)
    folder,     \* table folder: id -> [user_id, parent_id]
    worker      \* the background import thread of a quiz: its position and locals

vars == <<quiz, word, sentence, now, resp, hist, counts, reqs, log, sm2, folder, worker>>

Idle == [pc |-> "idle"]
NoCall == [pc |-> "idle"]
NoWorker == [pc |-> "none", kind |-> "none", stage |-> "none", quiz_id |-> NULL,
             loaded |-> "expired", todo |-> 0, runs |-> 0]

\* History of a card-direction: whether a review of it was ever committed, the
\* last operation that wrote it, and the clock reading of that operation when
\* it is a review or a reset; the operation that last set the repetitions
\* without counting up (creation, a rating-1 review, a reset) and the number of
\* reviews rated 2, 3 or 4 committed since then.
NewHist == [reviewed |-> FALSE, last |-> "created", at |-> NULL,
            since |-> "created", passes |-> 0]
NewCardHist == [forward |-> NewHist, reverse |-> NewHist]
ReviewedHist(h, rating, t) ==
    [reviewed |-> TRUE, last |-> IF rating = 1 THEN "again" ELSE "pass", at |-> t,
     since |-> IF rating = 1 THEN "again" ELSE h.since,
     passes |-> IF rating = 1 THEN 0 ELSE h.passes + 1]
ResetHist(h, t) ==
    [h EXCEPT !.last = "reset", !.at = t, !.since = "reset", !.passes = 0]
Dir(direction) == IF direction = "reverse" THEN "reverse" ELSE "forward"

\* The database after user 1 created quiz 1 with two words and user 2 created
\* quiz 2 with one imported sentence, all at time 0; no card has been
\* reviewed yet.
Init ==
    /\ quiz = <<[user_id |-> 1], [user_id |-> 2]>>
    /\ word = <<Word(1, 0), Word(1, 0)>>
    /\ sentence = <<Sentence(2, 0)>>
    /\ now = 0
    /\ resp = [op |-> "none", status |-> 0]
    /\ hist = [word |-> <<NewCardHist, NewCardHist>>, sentence |-> <<NewCardHist>>]
    /\ counts = [reviews |-> 0, resets |-> 0]
    /\ reqs = [i \in 1..MaxInFlight |-> Idle]
    /\ log = <<>>
    /\ sm2 = NoCall
    /\ folder = <<>>
    /\ worker = NoWorker

\* Time passes.
Tick ==
    /\ now < MaxTime
    /\ now' = now + 1
    /\ UNCHANGED <<folder, worker, quiz, word, sentence, resp, hist, counts, reqs, log, sm2>>

\* The outcome of a review request on a loaded row at clock reading t.
review_result(item, rating, direction, t) ==
    LET f == review_fields(item, direction)
        r == calculate_sm2(rating, f.ease_factor, f.interval, f.repetitions)
    IN [ease_factor |-> r.ease_factor, interval |-> r.interval,
        repetitions |-> r.repetitions, due_date |-> t + r.interval]

review_response(op, id, direction, r) ==
    [op |-> op, status |-> 200, id |-> id, direction |-> direction,
     ease_factor |-> r.ease_factor, interval |-> r.interval,
     repetitions |-> r.repetitions, due_date |-> r.due_date]

Ratings == {NULL, 1, 2, 3, 4, 5}
DirectionArgs == {"forward", "reverse"}

\* Faulty variant: the rating of the body is not validated.
api_review_word_unvalidated(user, word_id, rating, direction) ==
    IF word_id \notin DOMAIN word
    THEN /\ resp' = [op |-> "review_word", status |-> 404]
         /\ UNCHANGED <<folder, worker, quiz, word, sentence, now, hist, counts, reqs, log, sm2>>
    ELSE IF quiz[word[word_id].quiz_id].user_id # user
    THEN /\ resp' = [op |-> "review_word", status |-> 403]
         /\ UNCHANGED <<folder, worker, quiz, word, sentence, now, hist, counts, reqs, log, sm2>>
    ELSE LET loaded == word[word_id]
             r == review_result(loaded, rating, direction, now)
             modified == review_assign(loaded, direction, r, r.due_date)
         IN /\ word' = [word EXCEPT ![word_id] = flush(@, loaded, modified)]
            /\ resp' = review_response("review_word", word_id, direction, r)
            /\ hist' = [hist EXCEPT !.word[word_id][Dir(direction)] = ReviewedHist(@, rating, now)]
            /\ counts' = [counts EXCEPT !.reviews = @ + 1]
            /\ UNCHANGED <<folder, worker, quiz, sentence, now, reqs, log, sm2>>

\* Faulty variant: the owner of the quiz is not checked.
api_review_word_any_user(user, word_id, rating, direction) ==
    IF word_id \notin DOMAIN word
    THEN /\ resp' = [op |-> "review_word", status |-> 404]
         /\ UNCHANGED <<folder, worker, quiz, word, sentence, now, hist, counts, reqs, log, sm2>>
    ELSE IF rating = NULL \/ rating \notin {1, 2, 3, 4}
    THEN /\ resp' = [op |-> "review_word", status |-> 400]
         /\ UNCHANGED <<folder, worker, quiz, word, sentence, now, hist, counts, reqs, log, sm2>>
    ELSE LET loaded == word[word_id]
             r == review_result(loaded, rating, direction, now)
             modified == review_assign(loaded, direction, r, r.due_date)
         IN /\ word' = [word EXCEPT ![word_id] = flush(@, loaded, modified)]
            /\ resp' = review_response("review_word", word_id, direction, r)
            /\ hist' = [hist EXCEPT !.word[word_id][Dir(direction)] = ReviewedHist(@, rating, now)]
            /\ counts' = [counts EXCEPT !.reviews = @ + 1]
            /\ UNCHANGED <<folder, worker, quiz, sentence, now, reqs, log, sm2>>

\* POST /api/word/<word_id>/review, run to completion.
api_review_word(user, word_id, rating, direction) ==
    IF word_id \notin DOMAIN word
    THEN /\ resp' = [op |-> "review_word", status |-> 404]
         /\ UNCHANGED <<folder, worker, quiz, word, sentence, now, hist, counts, reqs, log, sm2>>
    ELSE IF quiz[word[word_id].quiz_id].user_id # user
    THEN /\ resp' = [op |-> "review_word", status |-> 403]
         /\ UNCHANGED <<folder, worker, quiz, word, sentence, now, hist, counts, reqs, log, sm2>>
    ELSE IF rating = NULL \/ rating \notin {1, 2, 3, 4}
    THEN /\ resp' = [op |-> "review_word", status |-> 400]
         /\ UNCHANGED <<folder, worker, quiz, word, sentence, now, hist, counts, reqs, log, sm2>>
    ELSE LET loaded == word[word_id]
             r == review_result(loaded, rating, direction, now)
             modified == review_assign(loaded, direction, r, r.due_date)
         IN /\ word' = [word EXCEPT ![word_id] = flush(@, loaded, modified)]
            /\ resp' = review_response("review_word", word_id, direction, r)
            /\ hist' = [hist EXCEPT !.word[word_id][Dir(direction)] = ReviewedHist(@, rating, now)]
            /\ counts' = [counts EXCEPT !.reviews = @ + 1]
            /\ UNCHANGED <<folder, worker, quiz, sentence, now, reqs, log, sm2>>

\* POST /api/sentence/<sentence_id>/review, run to completion.
api_review_sentence(user, sentence_id, rating, direction) ==
    IF sentence_id \notin DOMAIN sentence
    THEN /\ resp' = [op |-> "review_sentence", status |-> 404]
         /\ UNCHANGED <<folder, worker, quiz, word, sentence, now, hist, counts, reqs, log, sm2>>
    ELSE IF sentence[sentence_id].quiz_id \notin DOMAIN quiz
            \/ quiz[sentence[sentence_id].quiz_id].user_id # user
    THEN /\ resp' = [op |-> "review_sentence", status |-> 403]
         /\ UNCHANGED <<folder, worker, quiz, word, sentence, now, hist, counts, reqs, log, sm2>>
    ELSE IF rating = NULL \/ rating \notin {1, 2, 3, 4}
    THEN /\ resp' = [op |-> "review_sentence", status |-> 400]
         /\ UNCHANGED <<folder, worker, quiz, word, sentence, now, hist, counts, reqs, log, sm2>>
    ELSE LET loaded == sentence[sentence_id]
             r == review_result(loaded, rating, direction, now)
             modified == review_assign(loaded, direction, r, r.due_date)
         IN /\ sentence' = [sentence EXCEPT ![sentence_id] = flush(@, loaded, modified)]
            /\ resp' = review_response("review_sentence", sentence_id, direction, r)
            /\ hist' = [hist EXCEPT !.sentence[sentence_id][Dir(direction)] = ReviewedHist(@, rating, now)]
            /\ counts' = [counts EXCEPT !.reviews = @ + 1]
            /\ UNCHANGED <<folder, worker, quiz, word, now, reqs, log, sm2>>

\* Faulty variant: the reset leaves repetitions at 0.
reset_row_as_new(item, t) ==
    [item EXCEPT !.ease_factor = 250, !.interval = 0, !.repetitions = 0, !.due_date = t,
                 !.ease_factor_reverse = 250, !.interval_reverse = 0,
                 !.repetitions_reverse = 0, !.due_date_reverse = t]

\* Faulty variant: only the forward direction is reset.
reset_row_forward_only(item, t) ==
    [item EXCEPT !.ease_factor = 250, !.interval = 0, !.repetitions = 1, !.due_date = t]

\* The row reset_all_anki leaves for one word or sentence.
reset_row(item, t) ==
    [item EXCEPT !.ease_factor = 250, !.interval = 0, !.repetitions = 1, !.due_date = t,
                 !.ease_factor_reverse = 250, !.interval_reverse = 0,
                 !.repetitions_reverse = 1, !.due_date_reverse = t]

\* python reset_all_anki.py
reset_all_anki ==
    /\ word' = [i \in DOMAIN word |-> flush(word[i], word[i], reset_row(word[i], now))]
    /\ sentence' = [i \in DOMAIN sentence |->
                       flush(sentence[i], sentence[i], reset_row(sentence[i], now))]
    /\ hist' = [word |-> [i \in DOMAIN word |->
                             [d \in Directions |-> ResetHist(hist.word[i][d], now)]],
                sentence |-> [i \in DOMAIN sentence |->
                             [d \in Directions |-> ResetHist(hist.sentence[i][d], now)]]]
    /\ resp' = [op |-> "reset_all_anki", status |-> 0,
                words |-> Len(word), sentences |-> Len(sentence)]
    /\ counts' = [counts EXCEPT !.resets = @ + 1]
    /\ UNCHANGED <<folder, worker, quiz, now, reqs, log, sm2>>

\* Faulty variant: `if is_due` in place of `elif is_due`.
api_get_anki_cards_if_due(user, quiz_id, mode, direction) ==
    /\ IF quiz_id \notin DOMAIN quiz \/ quiz[quiz_id].user_id # user
       THEN resp' = [op |-> "anki_cards", status |-> 404]
       ELSE LET is_reverse == direction = "reverse"
                table == IF mode = "sentences" THEN sentence ELSE word
                items == {i \in DOMAIN table : table[i].quiz_id = quiz_id}
                fields(i) == get_anki_fields(table[i], is_reverse, now)
                is_new(i) == fields(i).repetitions = 0
                is_due(i) == fields(i).due_date <= now
            IN resp' = [op |-> "anki_cards", status |-> 200, quiz_id |-> quiz_id,
                        mode |-> IF mode = "sentences" THEN "sentences" ELSE "words",
                        direction |-> direction,
                        new_cards |-> {i \in items : is_new(i)},
                        due_cards |-> {i \in items : is_due(i)},
                        total |-> Cardinality(items)]
    /\ UNCHANGED <<folder, worker, quiz, word, sentence, now, hist, counts, reqs, log, sm2>>

\* Faulty variant: the selection is not restricted to the requested quiz.
api_get_anki_cards_all_quizzes(user, quiz_id, mode, direction) ==
    /\ IF quiz_id \notin DOMAIN quiz \/ quiz[quiz_id].user_id # user
       THEN resp' = [op |-> "anki_cards", status |-> 404]
       ELSE LET is_reverse == direction = "reverse"
                table == IF mode = "sentences" THEN sentence ELSE word
                items == DOMAIN table
                fields(i) == get_anki_fields(table[i], is_reverse, now)
                is_new(i) == fields(i).repetitions = 0
                is_due(i) == fields(i).due_date <= now
            IN resp' = [op |-> "anki_cards", status |-> 200, quiz_id |-> quiz_id,
                        mode |-> IF mode = "sentences" THEN "sentences" ELSE "words",
                        direction |-> direction,
                        new_cards |-> {i \in items : is_new(i)},
                        due_cards |-> {i \in items : ~is_new(i) /\ is_due(i)},
                        total |-> Cardinality(items)]
    /\ UNCHANGED <<folder, worker, quiz, word, sentence, now, hist, counts, reqs, log, sm2>>

\* Faulty variant: the selection stores the time of the request as the
\* forward due date of the words it returns as new.
api_get_anki_cards_stamps_new(user, quiz_id, mode, direction) ==
    /\ IF quiz_id \notin DOMAIN quiz \/ quiz[quiz_id].user_id # user
       THEN /\ resp' = [op |-> "anki_cards", status |-> 404]
            /\ UNCHANGED word
       ELSE LET is_reverse == direction = "reverse"
                table == IF mode = "sentences" THEN sentence ELSE word
                items == {i \in DOMAIN table : table[i].quiz_id = quiz_id}
                fields(i) == get_anki_fields(table[i], is_reverse, now)
                is_new(i) == fields(i).repetitions = 0
                is_due(i) == fields(i).due_date <= now
            IN /\ resp' = [op |-> "anki_cards", status |-> 200, quiz_id |-> quiz_id,
                           mode |-> IF mode = "sentences" THEN "sentences" ELSE "words",
                           direction |-> direction,
                           new_cards |-> {i \in items : is_new(i)},
                           due_cards |-> {i \in items : ~is_new(i) /\ is_due(i)},
                           total |-> Cardinality(items)]
               /\ word' = [i \in DOMAIN word |->
                              IF mode # "sentences" /\ i \in items /\ is_new(i)
                              THEN [word[i] EXCEPT !.due_date = now] ELSE word[i]]
    /\ UNCHANGED <<folder, worker, quiz, sentence, now, hist, counts, reqs, log, sm2>>

\* GET /api/quiz/<quiz_id>/anki-cards
api_get_anki_cards(user, quiz_id, mode, direction) ==
    /\ IF quiz_id \notin DOMAIN quiz \/ quiz[quiz_id].user_id # user
       THEN resp' = [op |-> "anki_cards", status |-> 404]
       ELSE LET is_reverse == direction = "reverse"
                table == IF mode = "sentences" THEN sentence ELSE word
                items == {i \in DOMAIN table : table[i].quiz_id = quiz_id}
                fields(i) == get_anki_fields(table[i], is_reverse, now)
                is_new(i) == fields(i).repetitions = 0
                is_due(i) == fields(i).due_date <= now
            IN resp' = [op |-> "anki_cards", status |-> 200, quiz_id |-> quiz_id,
                        mode |-> IF mode = "sentences" THEN "sentences" ELSE "words",
                        direction |-> direction,
                        new_cards |-> {i \in items : is_new(i)},
                        due_cards |-> {i \in items : ~is_new(i) /\ is_due(i)},
                        total |-> Cardinality(items)]
    /\ UNCHANGED <<folder, worker, quiz, word, sentence, now, hist, counts, reqs, log, sm2>>

RECURSIVE Sum(_, _)
Sum(f, S) == IF S = {} THEN 0 ELSE LET x == CHOOSE y \in S : TRUE IN f[x] + Sum(f, S \ {x})

\* Faulty variant: `if is_due` in place of `elif is_due` in the counts.
stats_counts_if_due(table, quiz_id, t) ==
    LET items == {i \in DOMAIN table : table[i].quiz_id = quiz_id}
        is_new(i) == Or(table[i].repetitions, 0) = 0
        is_due(i) == OrDate(table[i].due_date, t) <= t
    IN [new |-> Cardinality({i \in items : is_new(i)}),
        due |-> Cardinality({i \in items : is_due(i)})]

\* The new / due counts api_get_anki_stats takes of one table of one quiz
\* (forward direction only).
stats_counts(table, quiz_id, t) ==
    LET items == {i \in DOMAIN table : table[i].quiz_id = quiz_id}
        is_new(i) == Or(table[i].repetitions, 0) = 0
        is_due(i) == OrDate(table[i].due_date, t) <= t
    IN [new |-> Cardinality({i \in items : is_new(i)}),
        due |-> Cardinality({i \in items : ~is_new(i) /\ is_due(i)})]

\* GET /api/anki-stats
api_get_anki_stats(user) ==
    /\ LET quizzes == {q \in DOMAIN quiz : quiz[q].user_id = user}
           w == [q \in quizzes |-> stats_counts(word, q, now)]
           s == [q \in quizzes |-> stats_counts(sentence, q, now)]
           total_due_words == Sum([q \in quizzes |-> w[q].due], quizzes)
           total_new_words == Sum([q \in quizzes |-> w[q].new], quizzes)
           total_due_sentences == Sum([q \in quizzes |-> s[q].due], quizzes)
           total_new_sentences == Sum([q \in quizzes |-> s[q].new], quizzes)
       IN resp' = [op |-> "anki_stats", status |-> 200, user |-> user,
                   total_due_words |-> total_due_words,
                   total_new_words |-> total_new_words,
                   total_due_sentences |-> total_due_sentences,
                   total_new_sentences |-> total_new_sentences,
                   total_due |-> total_due_words + total_due_sentences,
                   total_new |-> total_new_words + total_new_sentences,
                   quizzes_with_due |->
                       {[id |-> q, due_words |-> w[q].due, due_sentences |-> s[q].due,
                         new_words |-> w[q].new, new_sentences |-> s[q].new] :
                        q \in {x \in quizzes : w[x].due > 0 \/ s[x].due > 0}}]
    /\ UNCHANGED <<folder, worker, quiz, word, sentence, now, hist, counts, reqs, log, sm2>>

Next ==
    \/ Tick
    \/ \E u \in Users, w \in DOMAIN word, r \in Ratings, d \in DirectionArgs :
          counts.reviews < MaxReviews /\ api_review_word(u, w, r, d)
    \/ \E u \in Users, s \in DOMAIN sentence, r \in Ratings, d \in DirectionArgs :
          counts.reviews < MaxReviews /\ api_review_sentence(u, s, r, d)

Spec == Init /\ [][Next]_vars

\* Due-card selection by either user, between reviews of the words of quiz 1
\* by their owner and clock ticks.
NextCards ==
    \/ Tick
    \/ \E w \in DOMAIN word, r \in {1, 2, 3, 4}, d \in DirectionArgs :
          counts.reviews < MaxReviews
          /\ api_review_word(quiz[word[w].quiz_id].user_id, w, r, d)
    \/ \E u \in Users, q \in DOMAIN quiz, m \in Modes, d \in DirectionArgs :
          api_get_anki_cards(u, q, m, d)

SpecCards == Init /\ [][NextCards]_vars

\* Resets between reviews of word 1 in both directions by its owner, clock
\* ticks and due-card selection by either user.
NextReset ==
    \/ Tick
    \/ \E r \in {1, 2, 3, 4}, d \in DirectionArgs :
          counts.reviews < MaxReviews /\ api_review_word(1, 1, r, d)
    \/ counts.resets < MaxResets /\ reset_all_anki
    \/ \E u \in Users, q \in DOMAIN quiz, m \in Modes, d \in DirectionArgs :
          api_get_anki_cards(u, q, m, d)

SpecReset == Init /\ [][NextReset]_vars

\* The two read operations, due-card selection and statistics, by either
\* user, between reviews of word 1 (both directions) and sentence 1 (forward)
\* by their owners and clock ticks.
NextRead ==
    \/ Tick
    \/ \E r \in {1, 2, 3, 4}, d \in DirectionArgs :
          counts.reviews < MaxReviews /\ api_review_word(1, 1, r, d)
    \/ \E r \in {1, 2, 3, 4} :
          counts.reviews < MaxReviews /\ api_review_sentence(2, 1, r, "forward")
    \/ \E u \in Users, q \in DOMAIN quiz, m \in Modes, d \in DirectionArgs :
          api_get_anki_cards(u, q, m, d)
    \/ \E u \in Users : api_get_anki_stats(u)

SpecRead == Init /\ [][NextRead]_vars

\* The database after user 1 created quiz 1 with word 1 and sentence 1 and
\* quiz 2 with word 2 and sentence 2, and user 2 created quiz 3 with word 3,
\* all at time 0.
InitQuizzes ==
    /\ quiz = <<[user_id |-> 1], [user_id |-> 1], [user_id |-> 2]>>
    /\ word = <<Word(1, 0), Word(2, 0), Word(3, 0)>>
    /\ sentence = <<Sentence(1, 0), Sentence(2, 0)>>
    /\ now = 0
    /\ resp = [op |-> "none", status |-> 0]
    /\ hist = [word |-> <<NewCardHist, NewCardHist, NewCardHist>>,
               sentence |-> <<NewCardHist, NewCardHist>>]
    /\ counts = [reviews |-> 0, resets |-> 0]
    /\ reqs = [i \in 1..MaxInFlight |-> Idle]
    /\ log = <<>>
    /\ sm2 = NoCall
    /\ folder = <<>>
    /\ worker = NoWorker

\* Due-card selection over each quiz by either user, between forward reviews
\* of words 1 and 2 by user 1 and clock ticks.
NextQuizzes ==
    \/ Tick
    \/ \E w \in {1, 2}, r \in {1, 2, 3, 4} :
          counts.reviews < MaxReviews /\ api_review_word(1, w, r, "forward")
    \/ \E u \in Users, q \in DOMAIN quiz, m \in Modes, d \in DirectionArgs :
          api_get_anki_cards(u, q, m, d)

SpecQuizzes == InitQuizzes /\ [][NextQuizzes]_vars

\* Statistics and forward selections of either user over the three
\* quizzes, between reviews by user 1 (word 1 forward, word 2 in reverse,
\* sentence 1 forward) and clock ticks.
NextStats ==
    \/ Tick
    \/ \E r \in {1, 2, 3, 4} :
          counts.reviews < MaxReviews /\ api_review_word(1, 1, r, "forward")
    \/ counts.reviews < MaxReviews /\ api_review_word(1, 2, 3, "reverse")
    \/ counts.reviews < MaxReviews /\ api_review_sentence(1, 1, 3, "forward")
    \/ \E u \in Users, q \in DOMAIN quiz, m \in Modes : api_get_anki_cards(u, q, m, "forward")
    \/ \E u \in Users : api_get_anki_stats(u)

SpecStats == InitQuizzes /\ [][NextStats]_vars

\* ------------------------------------------- editing, copying and moving
\* A word row with its text and its variants, a quiz row with its folder.
\* A text is a small integer, and so is the list of variants of a word (0 is
\* the empty list); the folder table does not change in this model: folder 1
\* belongs to user 1, folder 2 to user 2.
WordRow(quiz_id, t, lemma, variants) ==
    Word(quiz_id, t) @@ [lemma |-> lemma, variants |-> variants]
QuizRow(user_id, folder_id) == [user_id |-> user_id, folder_id |-> folder_id]
Folder == <<[user_id |-> 1, parent_id |-> NULL], [user_id |-> 2, parent_id |-> NULL]>>

\* The database after user 1 created quizzes 1 and 2 and added word 1 (with
\* a list of variants) and sentence 1 to quiz 1, all at time 0 and outside
\* any folder.
InitEdit ==
    /\ quiz = <<QuizRow(1, NULL), QuizRow(1, NULL)>>
    /\ word = <<WordRow(1, 0, 0, 1)>>
    /\ sentence = <<Sentence(1, 0)>>
    /\ now = 0
    /\ resp = [op |-> "none", status |-> 0]
    /\ hist = [word |-> <<NewCardHist>>, sentence |-> <<NewCardHist>>]
    /\ counts = [reviews |-> 0, resets |-> 0]
    /\ reqs = [i \in 1..MaxInFlight |-> Idle]
    /\ log = <<>>
    /\ sm2 = NoCall
    /\ folder = Folder
    /\ worker = NoWorker

\* Faulty variant: changing the lemma makes the word a new card again.
api_word_detail_put_restarts(user, word_id, lemma, variants_payload) ==
    IF word_id \notin DOMAIN word
    THEN /\ resp' = [op |-> "word_detail", status |-> 404]
         /\ UNCHANGED <<folder, worker, quiz, word, sentence, now, hist, counts, reqs, log, sm2>>
    ELSE IF quiz[word[word_id].quiz_id].user_id # user
    THEN /\ resp' = [op |-> "word_detail", status |-> 403]
         /\ UNCHANGED <<folder, worker, quiz, word, sentence, now, hist, counts, reqs, log, sm2>>
    ELSE IF lemma = NULL /\ variants_payload = NULL
    THEN /\ resp' = [op |-> "word_detail", status |-> 400]
         /\ UNCHANGED <<folder, worker, quiz, word, sentence, now, hist, counts, reqs, log, sm2>>
    ELSE LET new_lemma == IF lemma # NULL THEN lemma ELSE word[word_id].lemma
             new_variants == IF variants_payload # NULL THEN variants_payload
                             ELSE word[word_id].variants
         IN /\ word' = [word EXCEPT ![word_id] =
                           IF new_lemma # @.lemma
                           THEN WordRow(@.quiz_id, now, new_lemma, new_variants)
                           ELSE [@ EXCEPT !.variants = new_variants]]
            /\ resp' = [op |-> "word_detail", status |-> 200, id |-> word_id,
                        lemma |-> new_lemma, variants |-> new_variants]
            /\ UNCHANGED <<folder, worker, quiz, sentence, now, hist, counts, reqs, log, sm2>>

\* PUT /api/word/<word_id>: a body without any key is refused; a lemma in the
\* body replaces the lemma, a variants list replaces the variants.
api_word_detail_put(user, word_id, lemma, variants_payload) ==
    IF word_id \notin DOMAIN word
    THEN /\ resp' = [op |-> "word_detail", status |-> 404]
         /\ UNCHANGED <<folder, worker, quiz, word, sentence, now, hist, counts, reqs, log, sm2>>
    ELSE IF quiz[word[word_id].quiz_id].user_id # user
    THEN /\ resp' = [op |-> "word_detail", status |-> 403]
         /\ UNCHANGED <<folder, worker, quiz, word, sentence, now, hist, counts, reqs, log, sm2>>
    ELSE IF lemma = NULL /\ variants_payload = NULL
    THEN /\ resp' = [op |-> "word_detail", status |-> 400]
         /\ UNCHANGED <<folder, worker, quiz, word, sentence, now, hist, counts, reqs, log, sm2>>
    ELSE LET new_lemma == IF lemma # NULL THEN lemma ELSE word[word_id].lemma
             new_variants == IF variants_payload # NULL THEN variants_payload
                             ELSE word[word_id].variants
         IN /\ word' = [word EXCEPT ![word_id].lemma = new_lemma,
                                    ![word_id].variants = new_variants]
            /\ resp' = [op |-> "word_detail", status |-> 200, id |-> word_id,
                        lemma |-> new_lemma, variants |-> new_variants]
            /\ UNCHANGED <<folder, worker, quiz, sentence, now, hist, counts, reqs, log, sm2>>

\* Faulty variant: the copy is made with the schedule of the word it copies.
api_copy_word_with_schedule(user, word_id, target_quiz_id) ==
    IF word_id \notin DOMAIN word
    THEN /\ resp' = [op |-> "copy_word", status |-> 404]
         /\ UNCHANGED <<folder, worker, quiz, word, sentence, now, hist, counts, reqs, log, sm2>>
    ELSE IF quiz[word[word_id].quiz_id].user_id # user
    THEN /\ resp' = [op |-> "copy_word", status |-> 403]
         /\ UNCHANGED <<folder, worker, quiz, word, sentence, now, hist, counts, reqs, log, sm2>>
    ELSE IF target_quiz_id = NULL
    THEN /\ resp' = [op |-> "copy_word", status |-> 400]
         /\ UNCHANGED <<folder, worker, quiz, word, sentence, now, hist, counts, reqs, log, sm2>>
    ELSE IF target_quiz_id \notin DOMAIN quiz \/ quiz[target_quiz_id].user_id # user
    THEN /\ resp' = [op |-> "copy_word", status |-> 404]
         /\ UNCHANGED <<folder, worker, quiz, word, sentence, now, hist, counts, reqs, log, sm2>>
    ELSE LET new_word == [word[word_id] EXCEPT !.quiz_id = target_quiz_id]
         IN /\ word' = Append(word, new_word)
            /\ hist' = [hist EXCEPT !.word = Append(@, NewCardHist)]
            /\ resp' = [op |-> "copy_word", status |-> 201, word_id |-> Len(word) + 1,
                        quiz_id |-> target_quiz_id]
            /\ UNCHANGED <<folder, worker, quiz, sentence, now, counts, reqs, log, sm2>>

\* POST /api/word/<word_id>/copy
api_copy_word(user, word_id, target_quiz_id) ==
    IF word_id \notin DOMAIN word
    THEN /\ resp' = [op |-> "copy_word", status |-> 404]
         /\ UNCHANGED <<folder, worker, quiz, word, sentence, now, hist, counts, reqs, log, sm2>>
    ELSE IF quiz[word[word_id].quiz_id].user_id # user
    THEN /\ resp' = [op |-> "copy_word", status |-> 403]
         /\ UNCHANGED <<folder, worker, quiz, word, sentence, now, hist, counts, reqs, log, sm2>>
    ELSE IF target_quiz_id = NULL
    THEN /\ resp' = [op |-> "copy_word", status |-> 400]
         /\ UNCHANGED <<folder, worker, quiz, word, sentence, now, hist, counts, reqs, log, sm2>>
    ELSE IF target_quiz_id \notin DOMAIN quiz \/ quiz[target_quiz_id].user_id # user
    THEN /\ resp' = [op |-> "copy_word", status |-> 404]
         /\ UNCHANGED <<folder, worker, quiz, word, sentence, now, hist, counts, reqs, log, sm2>>
    ELSE LET new_word == WordRow(target_quiz_id, now, word[word_id].lemma,
                                 word[word_id].variants)
         IN /\ word' = Append(word, new_word)
            /\ hist' = [hist EXCEPT !.word = Append(@, NewCardHist)]
            /\ resp' = [op |-> "copy_word", status |-> 201, word_id |-> Len(word) + 1,
                        quiz_id |-> target_quiz_id]
            /\ UNCHANGED <<folder, worker, quiz, sentence, now, counts, reqs, log, sm2>>

\* POST /api/quiz/<quiz_id>/move
api_move_quiz(user, quiz_id, folder_id) ==
    IF quiz_id \notin DOMAIN quiz \/ quiz[quiz_id].user_id # user
    THEN /\ resp' = [op |-> "move_quiz", status |-> 404]
         /\ UNCHANGED <<folder, worker, quiz, word, sentence, now, hist, counts, reqs, log, sm2>>
    ELSE IF folder_id # NULL
            /\ (folder_id \notin DOMAIN folder \/ folder[folder_id].user_id # user)
    THEN /\ resp' = [op |-> "move_quiz", status |-> 404]
         /\ UNCHANGED <<folder, worker, quiz, word, sentence, now, hist, counts, reqs, log, sm2>>
    ELSE /\ quiz' = [quiz EXCEPT ![quiz_id].folder_id = folder_id]
         /\ resp' = [op |-> "move_quiz", status |-> 200, quiz_id |-> quiz_id,
                     folder_id |-> folder_id]
         /\ UNCHANGED <<folder, worker, word, sentence, now, hist, counts, reqs, log, sm2>>

\* The operations on word 1 and its quiz: forward reviews by the owner, and
\* between them edits, copies, moves, due-card selection and statistics.
NextEdit ==
    \/ \E r \in {1, 2, 3, 4} :
          counts.reviews < MaxReviews /\ api_review_word(1, 1, r, "forward")
    \/ \E u \in Users, l \in {NULL, 1}, v \in {NULL, 2} : api_word_detail_put(u, 1, l, v)
    \/ \E u \in Users, q \in {NULL, 1, 2} :
          Len(word) < 1 + MaxCopies /\ api_copy_word(u, 1, q)
    \/ \E u \in Users, f \in {NULL, 1, 2} : api_move_quiz(u, 1, f)
    \/ \E d \in DirectionArgs : api_get_anki_cards(1, 1, "words", d)
    \/ api_get_anki_stats(1)

SpecEdit == InitEdit /\ [][NextEdit]_vars

\* ----------------------------------------------------------------- folders
\* A parent_id of a JSON body: the key is absent, or its value is null, an
\* integer, or a string of decimal digits (v is the number the digits write).
JsonIds(n) ==
    {[t |-> "absent"], [t |-> "null"]}
        \cup {[t |-> "int", v |-> i] : i \in 1..n}
        \cup {[t |-> "str", v |-> i] : i \in 1..n}

\* Python truth of the value (`if parent_id:`): None is false, a non-zero
\* integer and a non-empty string are true.
Truthy(x) == x.t \in {"int", "str"}

\* Python `x == n` for an integer n: a string never equals an integer.
PyEq(x, n) == x.t = "int" /\ x.v = n

\* The integer a value is on the database side (the id column and the
\* parent_id column have integer affinity: a string of digits bound to them
\* is converted to the number it writes); None is NULL.
DbInt(x) == IF x.t \in {"int", "str"} THEN x.v ELSE NULL

\* db.session.get(Folder, x): the row number, or NULL when there is no row.
get_folder(x) == IF DbInt(x) \in DOMAIN folder THEN DbInt(x) ELSE NULL

\* is_descendant(check_id, ancestor_id) of api_folder_detail, where check_id
\* is a stored parent_id (an integer): "yes", "no", or "recursion" when the
\* walk does not end (RecursionError); more than Len(folder) calls can only
\* happen on a cycle.
RECURSIVE is_descendant_from(_, _, _)
is_descendant_from(check_id, ancestor_id, calls) ==
    IF check_id = ancestor_id THEN "yes"
    ELSE IF check_id \notin DOMAIN folder \/ folder[check_id].parent_id = NULL THEN "no"
    ELSE IF calls > Len(folder) THEN "recursion"
    ELSE is_descendant_from(folder[check_id].parent_id, ancestor_id, calls + 1)

\* The first call, is_descendant(new_parent_id, folder_id), whose check_id
\* is the value of the body.
is_descendant(new_parent_id, folder_id) ==
    IF PyEq(new_parent_id, folder_id) THEN "yes"
    ELSE IF get_folder(new_parent_id) = NULL
            \/ folder[get_folder(new_parent_id)].parent_id = NULL THEN "no"
    ELSE is_descendant_from(folder[get_folder(new_parent_id)].parent_id, folder_id, 1)

\* POST /api/folders
api_folders_post(user, name, parent_id) ==
    IF name = NULL
    THEN /\ resp' = [op |-> "create_folder", status |-> 400]
         /\ UNCHANGED <<quiz, word, sentence, now, hist, counts, reqs, log, sm2, folder, worker>>
    ELSE IF Truthy(parent_id)
            /\ (get_folder(parent_id) = NULL \/ folder[get_folder(parent_id)].user_id # user)
    THEN /\ resp' = [op |-> "create_folder", status |-> 400]
         /\ UNCHANGED <<quiz, word, sentence, now, hist, counts, reqs, log, sm2, folder, worker>>
    ELSE /\ folder' = Append(folder, [user_id |-> user, parent_id |-> DbInt(parent_id)])
         /\ resp' = [op |-> "create_folder", status |-> 201, id |-> Len(folder) + 1,
                     parent_id |-> DbInt(parent_id)]
         /\ UNCHANGED <<quiz, word, sentence, now, hist, counts, reqs, log, sm2, worker>>

\* PUT /api/folder/<folder_id>
api_folder_detail_put(user, folder_id, parent_id) ==
    IF folder_id \notin DOMAIN folder \/ folder[folder_id].user_id # user
    THEN /\ resp' = [op |-> "update_folder", status |-> 404, id |-> folder_id]
         /\ UNCHANGED <<quiz, word, sentence, now, hist, counts, reqs, log, sm2, folder, worker>>
    ELSE IF parent_id.t = "absent"
    THEN /\ resp' = [op |-> "update_folder", status |-> 200, id |-> folder_id,
                     parent_id |-> folder[folder_id].parent_id]
         /\ UNCHANGED <<quiz, word, sentence, now, hist, counts, reqs, log, sm2, folder, worker>>
    ELSE IF Truthy(parent_id)
            /\ (get_folder(parent_id) = NULL \/ folder[get_folder(parent_id)].user_id # user)
    THEN /\ resp' = [op |-> "update_folder", status |-> 400, id |-> folder_id]
         /\ UNCHANGED <<quiz, word, sentence, now, hist, counts, reqs, log, sm2, folder, worker>>
    ELSE IF Truthy(parent_id) /\ PyEq(parent_id, folder_id)
    THEN /\ resp' = [op |-> "update_folder", status |-> 400, id |-> folder_id]
         /\ UNCHANGED <<quiz, word, sentence, now, hist, counts, reqs, log, sm2, folder, worker>>
    ELSE IF Truthy(parent_id) /\ is_descendant(parent_id, folder_id) = "yes"
    THEN /\ resp' = [op |-> "update_folder", status |-> 400, id |-> folder_id]
         /\ UNCHANGED <<quiz, word, sentence, now, hist, counts, reqs, log, sm2, folder, worker>>
    ELSE IF Truthy(parent_id) /\ is_descendant(parent_id, folder_id) = "recursion"
    THEN /\ resp' = [op |-> "update_folder", status |-> 500, id |-> folder_id]
         /\ UNCHANGED <<quiz, word, sentence, now, hist, counts, reqs, log, sm2, folder, worker>>
    ELSE /\ folder' = [folder EXCEPT ![folder_id].parent_id = DbInt(parent_id)]
         /\ resp' = [op |-> "update_folder", status |-> 200, id |-> folder_id,
                     parent_id |-> DbInt(parent_id)]
         /\ UNCHANGED <<quiz, word, sentence, now, hist, counts, reqs, log, sm2, worker>>

\* Folder create and folder update requests, one at a time, from both users.
NextFolders ==
    \/ \E u \in Users, n \in {NULL, 1}, x \in JsonIds(MaxFolders) \ {[t |-> "absent"]} :
          Len(folder) < MaxFolders /\ api_folders_post(u, n, x)
    \/ \E u \in Users, f \in 1..MaxFolders, x \in JsonIds(MaxFolders) :
          api_folder_detail_put(u, f, x)

SpecFolders == Init /\ [][NextFolders]_vars

\* ------------------------------------------------------ background imports
\* A quiz row with the two processing columns.  A message is one of a few
\* tags, one for each message text of the handlers and workers.
ImportQuiz(user_id, processing_status, processing_message) ==
    [user_id |-> user_id, processing_status |-> processing_status,
     processing_message |-> processing_message]

\* The attribute the session of the worker holds for quiz.processing_status:
\* the value read by the last load or refresh, or "expired" after a commit.
\* The UPDATE of a commit sets the column when the attribute was assigned
\* while expired, or was assigned a value other than the loaded one.
flush_status(stored, loaded, assigned) ==
    IF loaded = "expired" \/ loaded # assigned THEN assigned ELSE stored

\* The database after user 1 created quiz 1 by hand (no import has run) and
\* user 2 has no quiz.
InitImport ==
    /\ quiz = <<ImportQuiz(1, "completed", "none")>>
    /\ word = <<>>
    /\ sentence = <<>>
    /\ now = 0
    /\ resp = [op |-> "none", status |-> 0]
    /\ hist = [word |-> <<>>, sentence |-> <<>>]
    /\ counts = [reviews |-> 0, resets |-> 0]
    /\ reqs = [i \in 1..MaxInFlight |-> Idle]
    /\ log = <<>>
    /\ sm2 = NoCall
    /\ folder = <<>>
    /\ worker = NoWorker

WorkerRunning == worker.pc \notin {"none", "done"}

\* threading.Thread(target=process_..._background, args=(quiz_id, ...)).start()
Thread(kind, quiz_id) ==
    [pc |-> "get", kind |-> kind, stage |-> IF kind = "image" THEN "ocr" ELSE "import",
     quiz_id |-> quiz_id, loaded |-> "expired", todo |-> 0, runs |-> worker.runs + 1]

\* POST /api/import-text: a new quiz with status 'pending' and a text worker.
api_create_song_quiz(user) ==
    /\ ~WorkerRunning /\ worker.runs < MaxImports
    /\ quiz' = Append(quiz, ImportQuiz(user, "pending", "queued"))
    /\ worker' = Thread("text", Len(quiz) + 1)
    /\ resp' = [op |-> "create_song_quiz", status |-> 201, quiz_id |-> Len(quiz) + 1]
    /\ UNCHANGED <<word, sentence, now, hist, counts, reqs, log, sm2, folder>>

\* POST /api/quizzes with a prompt: a new quiz, then status 'pending' and a
\* prompt worker.
api_quizzes_post(user) ==
    /\ ~WorkerRunning /\ worker.runs < MaxImports
    /\ quiz' = Append(quiz, ImportQuiz(user, "pending", "queued"))
    /\ worker' = Thread("prompt", Len(quiz) + 1)
    /\ resp' = [op |-> "quizzes", status |-> 201, quiz_id |-> Len(quiz) + 1]
    /\ UNCHANGED <<word, sentence, now, hist, counts, reqs, log, sm2, folder>>

\* POST /api/quiz/<quiz_id>/import-text and .../import-image: status
\* 'processing' on an existing quiz and a text or an image worker.
api_import_to_quiz(user, quiz_id, kind) ==
    IF quiz_id \notin DOMAIN quiz \/ quiz[quiz_id].user_id # user
    THEN /\ resp' = [op |-> "import_to_quiz", status |-> 404]
         /\ UNCHANGED <<quiz, word, sentence, now, hist, counts, reqs, log, sm2, folder, worker>>
    ELSE /\ ~WorkerRunning /\ worker.runs < MaxImports
         /\ quiz' = [quiz EXCEPT ![quiz_id].processing_status = "processing",
                                 ![quiz_id].processing_message = "adding"]
         /\ worker' = Thread(kind, quiz_id)
         /\ resp' = [op |-> "import_to_quiz", status |-> 200, quiz_id |-> quiz_id]
         /\ UNCHANGED <<word, sentence, now, hist, counts, reqs, log, sm2, folder>>

\* Faulty variant: a finished import can be cancelled as well.
api_cancel_processing_any_status(user, quiz_id) ==
    IF quiz_id \notin DOMAIN quiz \/ quiz[quiz_id].user_id # user
    THEN /\ resp' = [op |-> "cancel_processing", status |-> 404, quiz_id |-> quiz_id]
         /\ UNCHANGED <<quiz, word, sentence, now, hist, counts, reqs, log, sm2, folder, worker>>
    ELSE IF quiz[quiz_id].processing_status \notin {"pending", "processing", "completed"}
    THEN /\ resp' = [op |-> "cancel_processing", status |-> 400, quiz_id |-> quiz_id]
         /\ UNCHANGED <<quiz, word, sentence, now, hist, counts, reqs, log, sm2, folder, worker>>
    ELSE /\ quiz' = [quiz EXCEPT ![quiz_id].processing_status = "cancelled",
                                 ![quiz_id].processing_message = "cancelled"]
         /\ resp' = [op |-> "cancel_processing", status |-> 200, quiz_id |-> quiz_id]
         /\ UNCHANGED <<word, sentence, now, hist, counts, reqs, log, sm2, folder, worker>>

\* POST /api/quiz/<quiz_id>/cancel-processing
api_cancel_processing(user, quiz_id) ==
    IF quiz_id \notin DOMAIN quiz \/ quiz[quiz_id].user_id # user
    THEN /\ resp' = [op |-> "cancel_processing", status |-> 404, quiz_id |-> quiz_id]
         /\ UNCHANGED <<quiz, word, sentence, now, hist, counts, reqs, log, sm2, folder, worker>>
    ELSE IF quiz[quiz_id].processing_status \notin {"pending", "processing"}
    THEN /\ resp' = [op |-> "cancel_processing", status |-> 400, quiz_id |-> quiz_id]
         /\ UNCHANGED <<quiz, word, sentence, now, hist, counts, reqs, log, sm2, folder, worker>>
    ELSE /\ quiz' = [quiz EXCEPT ![quiz_id].processing_status = "cancelled",
                                 ![quiz_id].processing_message = "cancelled"]
         /\ resp' = [op |-> "cancel_processing", status |-> 200, quiz_id |-> quiz_id]
         /\ UNCHANGED <<word, sentence, now, hist, counts, reqs, log, sm2, folder, worker>>

\* The steps of the worker thread.  A step is the code between two accesses
\* of the database; the steps of the three workers that do the same thing
\* share one action.

\* quiz = db.session.get(Quiz, quiz_id)
worker_get ==
    /\ worker.pc = "get"
    /\ worker' = [worker EXCEPT !.pc = "begin",
                                !.loaded = quiz[worker.quiz_id].processing_status]
    /\ UNCHANGED <<quiz, word, sentence, now, resp, hist, counts, reqs, log, sm2, folder>>

\* quiz.processing_status = 'processing'; message; db.session.commit().
\* The text and the image worker then read quiz.source_language, which
\* loads the expired row; the prompt worker reads nothing before its call.
worker_begin ==
    /\ worker.pc = "begin"
    /\ quiz' = [quiz EXCEPT ![worker.quiz_id].processing_status =
                                flush_status(@, worker.loaded, "processing"),
                            ![worker.quiz_id].processing_message = "extracting"]
    /\ worker' = [worker EXCEPT !.pc = IF worker.kind = "prompt" THEN "call" ELSE "reload",
                                !.loaded = "expired"]
    /\ UNCHANGED <<word, sentence, now, resp, hist, counts, reqs, log, sm2, folder>>

worker_reload ==
    /\ worker.pc = "reload"
    /\ worker' = [worker EXCEPT !.pc = "call",
                                !.loaded = quiz[worker.quiz_id].processing_status]
    /\ UNCHANGED <<quiz, word, sentence, now, resp, hist, counts, reqs, log, sm2, folder>>

\* The external call of the stage (text extraction, prompt generation, or
\* the OCR of an image) raises, or returns n words; an OCR that returns no
\* text (n = 0) ends the worker with status 'error'; otherwise the worker
\* writes its message and commits.
worker_call(raises, n) ==
    /\ worker.pc = "call"
    /\ IF raises
       THEN /\ worker' = [worker EXCEPT !.pc = "except"]
            /\ UNCHANGED quiz
       ELSE IF worker.stage = "ocr" /\ n = 0
       THEN /\ quiz' = [quiz EXCEPT ![worker.quiz_id].processing_status =
                                       flush_status(@, worker.loaded, "error"),
                                    ![worker.quiz_id].processing_message = "error"]
            /\ worker' = [worker EXCEPT !.pc = "done", !.loaded = "expired"]
       ELSE /\ quiz' = [quiz EXCEPT ![worker.quiz_id].processing_message = "found"]
            /\ worker' = [worker EXCEPT !.pc = "check_found", !.todo = n,
                                        !.loaded = "expired"]
    /\ UNCHANGED <<word, sentence, now, resp, hist, counts, reqs, log, sm2, folder>>

\* Where a worker that was not cancelled goes on after each of its checks.
AfterCheck ==
    CASE worker.pc = "check_found" /\ worker.stage = "ocr" -> "get"
      [] worker.pc = "check_found" /\ worker.kind = "prompt" ->
             IF worker.todo > 0 THEN "check_future" ELSE "check_save"
      [] worker.pc = "check_found" -> "save_sentences"
      [] worker.pc = "check_analysis" ->
             IF worker.todo > 0 THEN "check_future" ELSE "check_save"
      [] worker.pc = "check_future" -> "progress"
      [] OTHER -> "save_words"

\* db.session.refresh(quiz); if quiz.processing_status == 'cancelled': return
worker_check ==
    /\ worker.pc \in {"check_found", "check_analysis", "check_future", "check_save"}
    /\ LET status == quiz[worker.quiz_id].processing_status IN
       worker' = IF status = "cancelled"
                 THEN [worker EXCEPT !.pc = "done", !.loaded = status]
                 ELSE [worker EXCEPT !.pc = AfterCheck, !.loaded = status,
                                     !.stage = "import"]
    /\ UNCHANGED <<quiz, word, sentence, now, resp, hist, counts, reqs, log, sm2, folder>>

\* The text worker saves the sentences (s of them), commits, writes its
\* message and commits.
worker_save_sentences(s) ==
    /\ worker.pc = "save_sentences"
    /\ sentence' = IF s = 0 THEN sentence ELSE Append(sentence, Sentence(worker.quiz_id, now))
    /\ hist' = IF s = 0 THEN hist ELSE [hist EXCEPT !.sentence = Append(@, NewCardHist)]
    /\ quiz' = [quiz EXCEPT ![worker.quiz_id].processing_message = "analyzing"]
    /\ worker' = [worker EXCEPT !.pc = "check_analysis", !.loaded = "expired"]
    /\ UNCHANGED <<word, now, resp, counts, reqs, log, sm2, folder>>

\* One result of the analysis is taken: message, commit.
worker_progress ==
    /\ worker.pc = "progress"
    /\ quiz' = [quiz EXCEPT ![worker.quiz_id].processing_message = "progress"]
    /\ worker' = [worker EXCEPT !.pc = IF worker.todo > 1 THEN "check_future" ELSE "check_save",
                                !.todo = @ - 1, !.loaded = "expired"]
    /\ UNCHANGED <<word, sentence, now, resp, hist, counts, reqs, log, sm2, folder>>

\* The analysed words that were not skipped (added of them; one row stands
\* for them) are saved and committed.
worker_save_words(added) ==
    /\ worker.pc = "save_words"
    /\ word' = IF added = 0 THEN word ELSE Append(word, Word(worker.quiz_id, now))
    /\ hist' = IF added = 0 THEN hist ELSE [hist EXCEPT !.word = Append(@, NewCardHist)]
    /\ worker' = [worker EXCEPT !.pc = "complete", !.loaded = "expired"]
    /\ UNCHANGED <<quiz, sentence, now, resp, counts, reqs, log, sm2, folder>>

\* quiz.processing_status = 'completed'; message; db.session.commit()
worker_complete ==
    /\ worker.pc = "complete"
    /\ quiz' = [quiz EXCEPT ![worker.quiz_id].processing_status =
                                flush_status(@, worker.loaded, "completed"),
                            ![worker.quiz_id].processing_message = "completed"]
    /\ worker' = [worker EXCEPT !.pc = "done", !.loaded = "expired"]
    /\ UNCHANGED <<word, sentence, now, resp, hist, counts, reqs, log, sm2, folder>>

\* Faulty variant: the handler of an exception only prints it.
worker_except_prints_only ==
    /\ worker.pc = "except"
    /\ worker' = [worker EXCEPT !.pc = "done"]
    /\ UNCHANGED <<quiz, word, sentence, now, resp, hist, counts, reqs, log, sm2, folder>>

\* except Exception: quiz.processing_status = 'error'; message; commit
worker_except ==
    /\ worker.pc = "except"
    /\ quiz' = [quiz EXCEPT ![worker.quiz_id].processing_status =
                                flush_status(@, worker.loaded, "error"),
                            ![worker.quiz_id].processing_message = "error"]
    /\ worker' = [worker EXCEPT !.pc = "done", !.loaded = "expired"]
    /\ UNCHANGED <<word, sentence, now, resp, hist, counts, reqs, log, sm2, folder>>

WorkerStep ==
    \/ worker_get
    \/ worker_begin
    \/ worker_reload
    \/ \E raises \in BOOLEAN, n \in 0..MaxWords : worker_call(raises, n)
    \/ worker_check
    \/ \E s \in 0..1 : worker_save_sentences(s)
    \/ worker_progress
    \/ \E added \in 0..1 : worker_save_words(added)
    \/ worker_complete
    \/ worker_except

\* Imports started by both users, one worker at a time, and cancel requests
\* at any moment between two steps of the worker.
NextImport ==
    \/ \E u \in Users : api_create_song_quiz(u)
    \/ \E u \in Users : api_quizzes_post(u)
    \/ \E u \in Users, q \in 1..2, k \in {"text", "image"} : api_import_to_quiz(u, q, k)
    \/ \E u \in Users, q \in 1..2 : api_cancel_processing(u, q)
    \/ WorkerStep

SpecImport == InitImport /\ [][NextImport]_vars

\* The worker thread keeps running: a step it can take is taken.
SpecImportFair == SpecImport /\ WF_vars(WorkerStep)

\* One card-direction followed through a long run of reviews and resets.
NextDeep ==
    \/ \E r \in {1, 2, 3, 4} :
          counts.reviews < MaxDeepReviews /\ api_review_word(1, 1, r, "forward")
    \/ counts.resets < MaxDeepResets /\ reset_all_anki

SpecDeep == Init /\ [][NextDeep]_vars

\* ------------------------------------------- calculate_sm2 as a pure function
\* The valid inputs of calculate_sm2, within the bounds.
Sm2Args ==
    [rating : {1, 2, 3, 4}, ease_factor : 130..MaxEaseIn,
     interval : 0..MaxIntervalIn, repetitions : 0..MaxRepsIn]

\* An empty database and a call of calculate_sm2 about to be made.
InitSM2 ==
    /\ quiz = <<>>
    /\ word = <<>>
    /\ sentence = <<>>
    /\ now = 0
    /\ resp = [op |-> "none", status |-> 0]
    /\ hist = [word |-> <<>>, sentence |-> <<>>]
    /\ counts = [reviews |-> 0, resets |-> 0]
    /\ reqs = [i \in 1..MaxInFlight |-> Idle]
    /\ log = <<>>
    /\ \E a \in Sm2Args : sm2 = [pc |-> "call", args |-> a]
    /\ folder = <<>>
    /\ worker = NoWorker

call_calculate_sm2 ==
    /\ sm2.pc = "call"
    /\ sm2' = [pc |-> "return", args |-> sm2.args,
               ret |-> calculate_sm2(sm2.args.rating, sm2.args.ease_factor,
                                     sm2.args.interval, sm2.args.repetitions)]
    /\ UNCHANGED <<folder, worker, quiz, word, sentence, now, resp, hist, counts, reqs, log>>

SpecSM2 == InitSM2 /\ [][call_calculate_sm2]_vars

\* The scheduler core: calculate_sm2 on every valid input, and the long run
\* of one card-direction from its creation.
SpecSched == (Init \/ InitSM2) /\ [][NextDeep \/ call_calculate_sm2]_vars

\* ------------------------------------------------ overlapping review requests
\* The table a request works on.
Table(kind) == IF kind = "sentence" THEN sentence ELSE word

\* First part of a review request: load the row, check the owner and the
\* body, read the direction-specific fields.
review_load(i, kind, user, id, rating, direction) ==
    /\ reqs[i] = Idle
    /\ LET op == IF kind = "sentence" THEN "review_sentence" ELSE "review_word" IN
       IF id \notin DOMAIN Table(kind)
       THEN /\ resp' = [op |-> op, status |-> 404]
            /\ UNCHANGED <<folder, worker, reqs, counts>>
       ELSE IF Table(kind)[id].quiz_id \notin DOMAIN quiz
               \/ quiz[Table(kind)[id].quiz_id].user_id # user
       THEN /\ resp' = [op |-> op, status |-> 403]
            /\ UNCHANGED <<folder, worker, reqs, counts>>
       ELSE IF rating = NULL \/ rating \notin {1, 2, 3, 4}
       THEN /\ resp' = [op |-> op, status |-> 400]
            /\ UNCHANGED <<folder, worker, reqs, counts>>
       ELSE /\ reqs' = [reqs EXCEPT ![i] =
                           [pc |-> "loaded", kind |-> kind, id |-> id, rating |-> rating,
                            direction |-> direction, loaded |-> Table(kind)[id]]]
            /\ counts' = [counts EXCEPT !.reviews = @ + 1]
            /\ UNCHANGED resp
    /\ UNCHANGED <<folder, worker, quiz, word, sentence, now, hist, log, sm2>>

\* Second part: apply calculate_sm2 and read the clock for the due date.
review_compute(i) ==
    /\ reqs[i].pc = "loaded"
    /\ reqs' = [reqs EXCEPT ![i] =
                   [pc |-> "computed", kind |-> @.kind, id |-> @.id, rating |-> @.rating,
                    direction |-> @.direction, loaded |-> @.loaded,
                    result |-> review_result(@.loaded, @.rating, @.direction, now)]]
    /\ UNCHANGED <<folder, worker, quiz, word, sentence, now, resp, hist, counts, log, sm2>>

\* Last part: assign the direction-specific attributes, commit, respond.
review_commit(i) ==
    /\ reqs[i].pc = "computed"
    /\ LET q == reqs[i]
           modified == review_assign(q.loaded, q.direction, q.result, q.result.due_date)
           at == q.result.due_date - q.result.interval
       IN /\ IF q.kind = "sentence"
             THEN /\ sentence' = [sentence EXCEPT ![q.id] = flush(@, q.loaded, modified)]
                  /\ UNCHANGED word
             ELSE /\ word' = [word EXCEPT ![q.id] = flush(@, q.loaded, modified)]
                  /\ UNCHANGED sentence
          /\ resp' = review_response(IF q.kind = "sentence" THEN "review_sentence"
                                     ELSE "review_word", q.id, q.direction, q.result)
          /\ hist' = [hist EXCEPT ![q.kind][q.id][Dir(q.direction)] =
                                      ReviewedHist(@, q.rating, at)]
          /\ log' = Append(log, [kind |-> q.kind, id |-> q.id, direction |-> Dir(q.direction),
                                 rating |-> q.rating, at |-> at])
    /\ reqs' = [reqs EXCEPT ![i] = Idle]
    /\ UNCHANGED <<folder, worker, quiz, now, counts, sm2>>

NextConc ==
    \/ Tick
    \/ \E i \in 1..MaxInFlight, k \in {"word", "sentence"}, u \in Users, id \in 1..2,
          r \in Ratings, d \in DirectionArgs :
          counts.reviews < MaxConcReviews /\ review_load(i, k, u, id, r, d)
    \/ \E i \in 1..MaxInFlight : review_compute(i)
    \/ \E i \in 1..MaxInFlight : review_commit(i)

SpecConc == Init /\ [][NextConc]_vars

\* Review requests of both users for every word and sentence and for an id
\* one past the end of each table, with and without a valid rating.
NextOwner ==
    \/ Tick
    \/ \E u \in Users, w \in 1..3, r \in {NULL, 1, 3}, d \in DirectionArgs :
          counts.reviews < MaxReviews /\ api_review_word(u, w, r, d)
    \/ \E u \in Users, s \in 1..2, r \in {NULL, 1, 3}, d \in DirectionArgs :
          counts.reviews < MaxReviews /\ api_review_sentence(u, s, r, d)

SpecOwner == Init /\ [][NextOwner]_vars

\* Overlapping reviews of the two directions of word 1 by its owner.
NextOverlap ==
    \/ Tick
    \/ \E i \in 1..MaxInFlight, r \in {1, 2, 3, 4}, d \in DirectionArgs :
          counts.reviews < MaxConcReviews /\ review_load(i, "word", 1, 1, r, d)
    \/ \E i \in 1..MaxInFlight : review_compute(i)
    \/ \E i \in 1..MaxInFlight : review_commit(i)

SpecOverlap == Init /\ [][NextOverlap]_vars
\* ------------------------------------------------------- time keeps passing
\* The latest due date stored in the database.
LatestDue ==
    LET dates == {word[i].due_date : i \in DOMAIN word}
                   \cup {word[i].due_date_reverse : i \in DOMAIN word}
                   \cup {sentence[i].due_date : i \in DOMAIN sentence}
                   \cup {sentence[i].due_date_reverse : i \in DOMAIN sentence}
    IN CHOOSE m \in dates : \A x \in dates : x <= m

\* Time passes, for as long as a reading of the clock can make a difference:
\* up to MaxTime and up to the latest due date.
TimePasses ==
    /\ now < Max(MaxTime, LatestDue)
    /\ now' = now + 1
    /\ UNCHANGED <<folder, worker, quiz, word, sentence, resp, hist, counts, reqs, log, sm2>>

\* Forward reviews of word 1 by its owner, made while the card is new or due
\* or before MaxTime, and forward selections of the words of quiz 1, while
\* time passes.
NextReturn ==
    \/ TimePasses
    \/ \E r \in {1, 2, 3, 4} :
          /\ counts.reviews < MaxReviews
          /\ (now < MaxTime \/ word[1].repetitions = 0 \/ word[1].due_date <= now)
          /\ api_review_word(1, 1, r, "forward")
    \/ api_get_anki_cards(1, 1, "words", "forward")

SpecReturn == Init /\ [][NextReturn]_vars /\ WF_vars(TimePasses)
\* ================================================================== claims
\* The stored schedule of one direction of a row.
Sched(item, d) ==
    IF d = "reverse"
    THEN [ease_factor |-> item.ease_factor_reverse, interval |-> item.interval_reverse,
          repetitions |-> item.repetitions_reverse, due_date |-> item.due_date_reverse]
    ELSE [ease_factor |-> item.ease_factor, interval |-> item.interval,
          repetitions |-> item.repetitions, due_date |-> item.due_date]

Other(d) == IF d = "reverse" THEN "forward" ELSE "reverse"
Kinds == {"word", "sentence"}
\* Every card-direction in the database, as <<kind, id, direction>>.
CardDirs == UNION {{<<k, i, d>> : i \in DOMAIN Table(k), d \in Directions} : k \in Kinds}
Stored(cd) == Sched(Table(cd[1])[cd[2]], cd[3])
History(cd) == hist[cd[1]][cd[2]][cd[3]]
ReviewOk(r) == r.op \in {"review_word", "review_sentence"} /\ r.status = 200
ReviewedKind(r) == IF r.op = "review_sentence" THEN "sentence" ELSE "word"

\* C1 as stated: a card-direction has repetitions = 0 exactly when it has
\* never been reviewed, a rating-1 review included.
C1_ZeroIffNeverReviewed ==
    \A cd \in CardDirs : (Stored(cd).repetitions = 0) <=> ~History(cd).reviewed

\* C1 amended: a card-direction has repetitions = 0 exactly when the last
\* operation that wrote it is its creation or a rating-1 review; a review with
\* rating 2, 3 or 4 returns repetitions >= 1 and a rating-1 review returns 0.
C1_ZeroIffCreatedOrAgain ==
    /\ \A cd \in CardDirs :
          (Stored(cd).repetitions = 0) <=> History(cd).last \in {"created", "again"}
    /\ ReviewOk(resp) =>
          LET h == History(<<ReviewedKind(resp), resp.id, Dir(resp.direction)>>) IN
          /\ h.last = "pass" => resp.repetitions >= 1
          /\ h.last = "again" => resp.repetitions = 0

\* A passed card is rated Again: its repetitions are back to 0 although it has
\* been reviewed twice.
C1_Witness ==
    /\ counts.reviews >= 2
    /\ History(<<"word", 1, "forward">>).last = "again"
    /\ word[1].repetitions = 0
    /\ word[1].ease_factor = 215

\* C2: once no request on a card is in flight, the stored schedule of each of
\* its directions is the result of applying the committed reviews of that
\* direction one after the other in some order, starting from the new card.
Apply(s, e) ==
    LET r == calculate_sm2(e.rating, s.ease_factor, s.interval, s.repetitions)
    IN [ease_factor |-> r.ease_factor, interval |-> r.interval,
        repetitions |-> r.repetitions, due_date |-> e.at + r.interval]

RECURSIVE SerialOutcomes(_, _)
SerialOutcomes(s, E) ==
    IF E = {} THEN {s}
    ELSE UNION {SerialOutcomes(Apply(s, log[j]), E \ {j}) : j \in E}

InFlight(k, i) == \E n \in DOMAIN reqs : reqs[n].pc # "idle" /\ reqs[n].kind = k /\ reqs[n].id = i

C2_ReviewsSerialized ==
    \A cd \in CardDirs :
        ~InFlight(cd[1], cd[2]) =>
            Stored(cd) \in SerialOutcomes(
                [ease_factor |-> 250, interval |-> 0, repetitions |-> 0, due_date |-> 0],
                {j \in DOMAIN log : /\ log[j].kind = cd[1] /\ log[j].id = cd[2]
                                    /\ log[j].direction = cd[3]})

\* C3: a successful review of one direction of a card leaves the four fields of
\* the other direction as they were, and what it stores and returns is
\* calculate_sm2 of the reviewed direction's own three fields.
C3_Step ==
    (counts'.reviews = counts.reviews + 1) =>
        LET k == ReviewedKind(resp')
            d == Dir(resp'.direction)
            old == Table(k)[resp'.id]
            new == IF k = "sentence" THEN sentence'[resp'.id] ELSE word'[resp'.id]
        IN /\ ReviewOk(resp')
           /\ Sched(new, Other(d)) = Sched(old, Other(d))
           /\ \E rating \in {1, 2, 3, 4} :
                 LET o == calculate_sm2(rating, Sched(old, d).ease_factor,
                                        Sched(old, d).interval, Sched(old, d).repetitions)
                 IN /\ Sched(new, d) = [ease_factor |-> o.ease_factor,
                                        interval |-> o.interval,
                                        repetitions |-> o.repetitions,
                                        due_date |-> now + o.interval]
                    /\ resp'.ease_factor = o.ease_factor
                    /\ resp'.interval = o.interval
                    /\ resp'.repetitions = o.repetitions

C3_DirectionIndependence == [][C3_Step]_vars

\* The sentence was reviewed in reverse after time passed; its forward
\* schedule is still the one it was created with.
C3_Witness ==
    /\ resp.op = "review_sentence" /\ resp.status = 200 /\ resp.direction = "reverse"
    /\ now = 1
    /\ sentence[1].repetitions_reverse = 1 /\ sentence[1].due_date_reverse > 1
    /\ Sched(sentence[1], "forward") =
          [ease_factor |-> 250, interval |-> 0, repetitions |-> 0, due_date |-> 0]

\* C4: calculate_sm2 returns an ease factor >= 1.3 for every rating and every
\* valid input, and every stored ease factor is >= 1.3.
C4_EaseFloor ==
    /\ sm2.pc = "return" => sm2.ret.ease_factor >= 130
    /\ \A cd \in CardDirs : Stored(cd).ease_factor >= 130

\* Again on ease factor 1.4: the subtraction goes below 1.3 and is clamped.
C4_Witness ==
    /\ sm2.pc = "return" /\ sm2.args.rating = 1 /\ sm2.args.ease_factor = 140
    /\ sm2.ret.ease_factor = 130

\* C5: calculate_sm2 returns an ease factor <= 3.0 for every rating and every
\* input whose ease factor is in [1.3, 3.0], and every stored ease factor is
\* <= 3.0.
C5_EaseCeiling ==
    /\ (sm2.pc = "return" /\ sm2.args.ease_factor <= 300) => sm2.ret.ease_factor <= 300
    /\ \A cd \in CardDirs : Stored(cd).ease_factor <= 300

\* The fourth Easy in a row from the default 2.5: 2.95 + 0.15 is cut to 3.0.
C5_Witness ==
    /\ resp.op = "review_word" /\ resp.status = 200
    /\ counts.reviews = 4 /\ word[1].repetitions = 4
    /\ word[1].ease_factor = 300 /\ resp.ease_factor = 300

\* C6: for rating 1 calculate_sm2 returns repetitions = 0 and interval = 0
\* whatever the ease factor, interval and repetitions passed in.
C6_ResetOnFailure ==
    (sm2.pc = "return" /\ sm2.args.rating = 1) =>
        sm2.ret.repetitions = 0 /\ sm2.ret.interval = 0

C6_Witness ==
    /\ sm2.pc = "return" /\ sm2.args.rating = 1
    /\ sm2.args.interval = MaxIntervalIn /\ sm2.args.repetitions = MaxRepsIn
    /\ sm2.ret.interval = 0 /\ sm2.ret.repetitions = 0

\* C7: for rating 2, 3 or 4 calculate_sm2 returns repetitions + 1.
C7_RepetitionsIncrement ==
    (sm2.pc = "return" /\ sm2.args.rating \in {2, 3, 4}) =>
        sm2.ret.repetitions = sm2.args.repetitions + 1

C7_Witness ==
    /\ sm2.pc = "return" /\ sm2.args.rating = 2 /\ sm2.args.repetitions = 2
    /\ sm2.ret.repetitions = 3

\* C8: every review of a schedule reached from card creation by reviews and
\* resets returns interval >= 0, and interval >= 1 when it returns
\* repetitions >= 1.
C8_IntervalPositive ==
    ReviewOk(resp) =>
        /\ resp.interval >= 0
        /\ resp.repetitions >= 1 => resp.interval >= 1

\* Hard as the first review after a reset: interval 0 and repetitions 1 go in,
\* interval 1 and repetitions 2 come out.
C8_Witness ==
    /\ ReviewOk(resp) /\ counts.reviews = 1 /\ counts.resets = 1
    /\ resp.repetitions = 2 /\ resp.interval = 1

\* C9: the stored due_date of a card-direction whose last write is a review is
\* the clock reading of that review plus the stored interval.
C9_DueDateIsReviewTimePlusInterval ==
    \A cd \in CardDirs :
        History(cd).last \in {"again", "pass"} =>
            Stored(cd).due_date = History(cd).at + Stored(cd).interval

\* C10: a successful due-card selection returns each card of the quiz in
\* new_cards iff its repetitions are 0, in due_cards iff its repetitions are
\* > 0 and its due_date <= now, in neither iff its repetitions are > 0 and its
\* due_date > now, and returns no card in both and no card of another quiz.
C10_Step ==
    (resp' # resp /\ resp'.op = "anki_cards" /\ resp'.status = 200) =>
        LET table == IF resp'.mode = "sentences" THEN sentence ELSE word
            items == {i \in DOMAIN table : table[i].quiz_id = resp'.quiz_id}
            s(i) == Sched(table[i], Dir(resp'.direction))
        IN /\ resp'.new_cards \cap resp'.due_cards = {}
           /\ resp'.new_cards \cup resp'.due_cards \subseteq items
           /\ \A i \in items :
                /\ i \in resp'.new_cards <=> s(i).repetitions = 0
                /\ i \in resp'.due_cards <=> (s(i).repetitions > 0 /\ s(i).due_date <= now)
                /\ i \notin (resp'.new_cards \cup resp'.due_cards)
                      <=> (s(i).repetitions > 0 /\ s(i).due_date > now)

C10_Classification == [][C10_Step]_vars

\* A selection over quiz 1 that returns word 1 as due and leaves out word 2,
\* which has been reviewed and is not due yet.
C10_Witness ==
    /\ resp.op = "anki_cards" /\ resp.status = 200
    /\ resp.mode = "words" /\ resp.direction = "forward"
    /\ resp.new_cards = {} /\ resp.due_cards = {1}
    /\ word[2].repetitions > 0 /\ word[2].due_date > now

\* C11: from a reset until the next review of a card-direction, its stored
\* repetitions are 1 and its due_date is the reset time (which is never
\* after the clock), and every successful due-card selection over its quiz,
\* table and direction returns it in due_cards and not in new_cards, whatever
\* its history before the reset.
C11_State ==
    \A cd \in CardDirs :
        History(cd).last = "reset" =>
            /\ Stored(cd).repetitions = 1
            /\ Stored(cd).due_date = History(cd).at
            /\ History(cd).at <= now

C11_Step ==
    (resp' # resp /\ resp'.op = "anki_cards" /\ resp'.status = 200) =>
        LET kind == IF resp'.mode = "sentences" THEN "sentence" ELSE "word"
            items == {i \in DOMAIN Table(kind) : Table(kind)[i].quiz_id = resp'.quiz_id}
        IN \A i \in items :
              History(<<kind, i, Dir(resp'.direction)>>).last = "reset" =>
                  i \in resp'.due_cards /\ i \notin resp'.new_cards

C11_ResetIsDue == []C11_State /\ [][C11_Step]_vars

\* Word 1 was reviewed, then everything was reset at time 0; a selection at
\* time 1 returns word 1 and the never-reviewed word 2 as due, none as new.
C11_Witness ==
    /\ resp.op = "anki_cards" /\ resp.status = 200
    /\ resp.mode = "words" /\ resp.direction = "forward"
    /\ resp.due_cards = {1, 2} /\ resp.new_cards = {}
    /\ History(<<"word", 1, "forward">>).reviewed
    /\ History(<<"word", 1, "forward">>).last = "reset"
    /\ History(<<"word", 1, "forward">>).at = 0 /\ now = 1

\* C12: a review request whose rating is missing or is not one of 1, 2, 3, 4
\* is answered with an error (400 when it comes from the owner of the card,
\* never 200) and leaves every row of the word and sentence tables, hence all
\* eight scheduling fields of the card, unchanged.
C12_Step ==
    \A u \in Users, r \in Ratings \ {1, 2, 3, 4}, d \in DirectionArgs :
        /\ \A w \in DOMAIN word :
              api_review_word(u, w, r, d) =>
                  /\ resp'.status # 200
                  /\ quiz[word[w].quiz_id].user_id = u => resp'.status = 400
                  /\ word' = word /\ sentence' = sentence
        /\ \A i \in DOMAIN sentence :
              api_review_sentence(u, i, r, d) =>
                  /\ resp'.status # 200
                  /\ quiz[sentence[i].quiz_id].user_id = u => resp'.status = 400
                  /\ word' = word /\ sentence' = sentence

C13_Step ==
    (counts'.resets = counts.resets + 1) =>
        /\ DOMAIN word' = DOMAIN word /\ DOMAIN sentence' = DOMAIN sentence
        /\ \A i \in DOMAIN word : \A d \in Directions :
              Sched(word'[i], d) =
                  [ease_factor |-> 250, interval |-> 0, repetitions |-> 1, due_date |-> now]
        /\ \A i \in DOMAIN sentence : \A d \in Directions :
              Sched(sentence'[i], d) =
                  [ease_factor |-> 250, interval |-> 0, repetitions |-> 1, due_date |-> now]
        /\ (\A cd \in CardDirs : History(cd).last = "reset" /\ History(cd).at = now) =>
              word' = word /\ sentence' = sentence

C13_ResetSetsDefaults == [][C13_Step]_vars

\* Word 1 was reviewed at least twice, then the reset ran twice: its forward
\* direction and the never-reviewed reverse direction hold the reset values.
C13_Witness ==
    /\ resp.op = "reset_all_anki" /\ counts.resets = 2 /\ counts.reviews >= 2
    /\ History(<<"word", 1, "forward">>).reviewed
    /\ ~History(<<"word", 1, "reverse">>).reviewed
    /\ \A cd \in CardDirs :
          /\ History(cd).last = "reset"
          /\ Stored(cd) = [ease_factor |-> 250, interval |-> 0, repetitions |-> 1,
                           due_date |-> now]

\* C14 as stated: the stored repetitions of a card-direction equal the number
\* of reviews rated 2, 3 or 4 committed for it since the latest of its
\* creation, a rating-1 review and a reset.
C14_RepetitionsIsStreak ==
    \A cd \in CardDirs : Stored(cd).repetitions = History(cd).passes

\* C14 amended: the stored repetitions of a card-direction equal the number of
\* reviews rated 2, 3 or 4 committed for it since the latest of its creation,
\* a rating-1 review and a reset, plus one when that latest event is a reset
\* (creation and a rating-1 review leave 0, a reset leaves 1).
C14_RepetitionsIsStreakPlusReset ==
    \A cd \in CardDirs :
        Stored(cd).repetitions =
            History(cd).passes + (IF History(cd).since = "reset" THEN 1 ELSE 0)

\* Word 1 was reset and then passed twice: three repetitions are stored.
C14_Witness ==
    /\ History(<<"word", 1, "forward">>).since = "reset"
    /\ History(<<"word", 1, "forward">>).passes = 2
    /\ word[1].repetitions = 3
    /\ word[1].repetitions_reverse = 1

\* n is the floor of the quotient num / den of non-negative integers.
IsFloor(n, num, den) == n * den <= num /\ num < (n + 1) * den

\* C15: for rating 3 calculate_sm2 returns the ease factor it was given,
\* repetitions + 1, and interval 1 when repetitions = 0, 6 when repetitions =
\* 1, floor(interval * ease_factor) otherwise; update(3, 2.5, 0, 0) = (2.5, 1,
\* 1), update(3, 2.5, 1, 1) = (2.5, 6, 2), update(3, 2.0, 6, 2) = (2.0, 12, 3).
C15_GoodRule ==
    /\ (sm2.pc = "return" /\ sm2.args.rating = 3) =>
          /\ sm2.ret.ease_factor = sm2.args.ease_factor
          /\ sm2.ret.repetitions = sm2.args.repetitions + 1
          /\ sm2.args.repetitions = 0 => sm2.ret.interval = 1
          /\ sm2.args.repetitions = 1 => sm2.ret.interval = 6
          /\ sm2.args.repetitions >= 2 =>
                IsFloor(sm2.ret.interval, sm2.args.interval * sm2.args.ease_factor, 100)
    /\ calculate_sm2(3, 250, 0, 0) = [ease_factor |-> 250, interval |-> 1, repetitions |-> 1]
    /\ calculate_sm2(3, 250, 1, 1) = [ease_factor |-> 250, interval |-> 6, repetitions |-> 2]
    /\ calculate_sm2(3, 200, 6, 2) = [ease_factor |-> 200, interval |-> 12, repetitions |-> 3]

\* The third Good: interval 7 at ease factor 2.35 becomes floor(16.45) = 16.
C15_Witness ==
    /\ sm2.pc = "return"
    /\ sm2.args = [rating |-> 3, ease_factor |-> 235, interval |-> 7, repetitions |-> 2]
    /\ sm2.ret = [ease_factor |-> 235, interval |-> 16, repetitions |-> 3]

\* C16: for rating 4 calculate_sm2 returns ease factor min(3.0, ease_factor +
\* 0.15), repetitions + 1, and interval 4 when repetitions = 0, 10 when
\* repetitions = 1, floor(interval * ease_factor * 1.3) with the ease factor
\* it was given otherwise; update(4, 2.5, 0, 0) = (2.65, 4, 1).
C16_EasyRule ==
    /\ (sm2.pc = "return" /\ sm2.args.rating = 4) =>
          /\ sm2.ret.ease_factor <= 300 /\ sm2.ret.ease_factor <= sm2.args.ease_factor + 15
          /\ sm2.ret.ease_factor \in {300, sm2.args.ease_factor + 15}
          /\ sm2.ret.repetitions = sm2.args.repetitions + 1
          /\ sm2.args.repetitions = 0 => sm2.ret.interval = 4
          /\ sm2.args.repetitions = 1 => sm2.ret.interval = 10
          /\ sm2.args.repetitions >= 2 =>
                IsFloor(sm2.ret.interval,
                        sm2.args.interval * sm2.args.ease_factor * 13, 1000)
    /\ calculate_sm2(4, 250, 0, 0) = [ease_factor |-> 265, interval |-> 4, repetitions |-> 1]

\* The third Easy: interval 10 at ease factor 2.5 becomes floor(32.5) = 32
\* (34 with the increased ease factor), and the ease factor becomes 2.65.
C16_Witness ==
    /\ sm2.pc = "return"
    /\ sm2.args = [rating |-> 4, ease_factor |-> 250, interval |-> 10, repetitions |-> 2]
    /\ sm2.ret = [ease_factor |-> 265, interval |-> 32, repetitions |-> 3]

\* C17: for rating 2 calculate_sm2 returns ease factor max(1.3, ease_factor -
\* 0.15), repetitions + 1, and interval 1 when repetitions = 0, max(1,
\* floor(interval * 1.2)) otherwise.
C17_HardRule ==
    (sm2.pc = "return" /\ sm2.args.rating = 2) =>
        /\ sm2.ret.ease_factor >= 130 /\ sm2.ret.ease_factor >= sm2.args.ease_factor - 15
        /\ sm2.ret.ease_factor \in {130, sm2.args.ease_factor - 15}
        /\ sm2.ret.repetitions = sm2.args.repetitions + 1
        /\ sm2.args.repetitions = 0 => sm2.ret.interval = 1
        /\ sm2.args.repetitions >= 1 =>
              /\ sm2.ret.interval >= 1
              /\ \/ IsFloor(sm2.ret.interval, sm2.args.interval * 12, 10)
                 \/ sm2.ret.interval = 1 /\ IsFloor(0, sm2.args.interval * 12, 10)

\* Hard on interval 7 at ease factor 1.4: the interval becomes floor(8.4) = 8
\* and the ease factor is held at 1.3.
C17_Witness ==
    /\ sm2.pc = "return"
    /\ sm2.args = [rating |-> 2, ease_factor |-> 140, interval |-> 7, repetitions |-> 3]
    /\ sm2.ret = [ease_factor |-> 130, interval |-> 8, repetitions |-> 4]

\* C18: a due-card selection and a statistics request, by any user, for any
\* quiz, table and direction and however often repeated, leave every row of
\* the quiz, word and sentence tables, hence every scheduling field, unchanged.
C18_Step ==
    (resp' # resp /\ resp'.op \in {"anki_cards", "anki_stats"}) =>
        word' = word /\ sentence' = sentence /\ quiz' = quiz

C18_ReadsArePure == [][C18_Step]_vars

\* Statistics of user 1 at time 1, after word 1 was rated Good forward and
\* Again in reverse at time 0: word 1 is due, word 2 new, and word 1 still
\* holds what the two reviews stored.
C18_Witness ==
    /\ resp.op = "anki_stats" /\ resp.user = 1 /\ now = 1
    /\ resp.total_due_words = 1 /\ resp.total_new_words = 1 /\ resp.total_due = 1
    /\ Sched(word[1], "forward") =
          [ease_factor |-> 250, interval |-> 1, repetitions |-> 1, due_date |-> 1]
    /\ Sched(word[1], "reverse") =
          [ease_factor |-> 230, interval |-> 0, repetitions |-> 0, due_date |-> 0]

\* The class the selection rules give a stored schedule at clock reading t,
\* with no regard to the quiz of the card.
Classify(s, t) ==
    IF s.repetitions = 0 THEN "new"
    ELSE IF s.due_date <= t THEN "due" ELSE "not_due"

\* C19: a successful due-card selection for a quiz returns in new_cards and
\* due_cards only cards of the requested table whose quiz is the requested
\* one, never a card of another quiz, and puts each card of the quiz in
\* new_cards exactly when the rules class it New and in due_cards exactly when
\* they class it Due.
C19_Step ==
    (resp' # resp /\ resp'.op = "anki_cards" /\ resp'.status = 200) =>
        LET kind == IF resp'.mode = "sentences" THEN "sentence" ELSE "word"
            returned == resp'.new_cards \cup resp'.due_cards
        IN /\ returned \subseteq DOMAIN Table(kind)
           /\ \A i \in DOMAIN Table(kind) :
                 LET c == Classify(Sched(Table(kind)[i], Dir(resp'.direction)), now) IN
                 IF Table(kind)[i].quiz_id = resp'.quiz_id
                 THEN /\ i \in resp'.new_cards <=> c = "new"
                      /\ i \in resp'.due_cards <=> c = "due"
                 ELSE i \notin returned

C19_QuizFilter == [][C19_Step]_vars

\* A selection over quiz 1 returns word 1 as due and nothing else, while word
\* 2 of quiz 2 is due as well and word 3 of the other user is new.
C19_Witness ==
    /\ resp.op = "anki_cards" /\ resp.status = 200 /\ resp.quiz_id = 1
    /\ resp.mode = "words" /\ resp.direction = "forward"
    /\ resp.due_cards = {1} /\ resp.new_cards = {}
    /\ Classify(Sched(word[2], "forward"), now) = "due"
    /\ Classify(Sched(word[3], "forward"), now) = "new"

\* C20: every step that is neither a committed review nor a reset (an edit
\* of a word's text or variants, a copy of a word, a move of the quiz to a
\* folder, a due-card selection, a statistics request, and each of their
\* refusals) keeps every word and sentence and leaves the eight scheduling
\* fields of each unchanged.
C20_Step ==
    (counts' = counts) =>
        /\ \A i \in DOMAIN word :
              /\ i \in DOMAIN word'
              /\ \A d \in Directions : Sched(word'[i], d) = Sched(word[i], d)
        /\ \A i \in DOMAIN sentence :
              /\ i \in DOMAIN sentence'
              /\ \A d \in Directions : Sched(sentence'[i], d) = Sched(sentence[i], d)

C20_OnlyReviewAndResetWrite == [][C20_Step]_vars

\* Word 1 was rated Easy, then its lemma and variants were edited, it was
\* copied to quiz 2 and quiz 1 was moved to folder 1; after a statistics
\* request it still holds the schedule the review stored.
C20_Witness ==
    /\ resp.op = "anki_stats" /\ counts.reviews = 1
    /\ word[1].lemma = 1 /\ word[1].variants = 2
    /\ quiz[1].folder_id = 1
    /\ Len(word) = 2 /\ word[2].quiz_id = 2
    /\ Sched(word[1], "forward") =
          [ease_factor |-> 265, interval |-> 4, repetitions |-> 1, due_date |-> 4]
    /\ Sched(word[1], "reverse") =
          [ease_factor |-> 250, interval |-> 0, repetitions |-> 0, due_date |-> 0]

\* C21: every card-direction that has been neither reviewed nor reset since
\* its card was created stores ease_factor 2.5, interval 0 and repetitions 0
\* and is classed New; the row a successful copy-word request adds has these
\* values in both directions whatever the schedule of the word it copies; and
\* a successful selection for a quiz returns each such card of the quiz in
\* new_cards and not in due_cards.
C21_State ==
    \A cd \in CardDirs :
        History(cd).last = "created" =>
            /\ Stored(cd).ease_factor = 250
            /\ Stored(cd).interval = 0
            /\ Stored(cd).repetitions = 0
            /\ Classify(Stored(cd), now) = "new"

C21_Step ==
    /\ (resp' # resp /\ resp'.op = "copy_word" /\ resp'.status = 201) =>
          /\ Len(word') = Len(word) + 1
          /\ \A d \in Directions :
                /\ Sched(word'[Len(word')], d).ease_factor = 250
                /\ Sched(word'[Len(word')], d).interval = 0
                /\ Sched(word'[Len(word')], d).repetitions = 0
                /\ hist'.word[Len(word')][d].last = "created"
    /\ (resp' # resp /\ resp'.op = "anki_cards" /\ resp'.status = 200
          /\ resp'.mode = "words") =>
          \A i \in DOMAIN word :
              (word[i].quiz_id = resp'.quiz_id
                 /\ hist.word[i][Dir(resp'.direction)].last = "created") =>
                  i \in resp'.new_cards /\ i \notin resp'.due_cards

C21_NewCardsStartNew == []C21_State /\ [][C21_Step]_vars

\* A copy of a word with review history, made into the quiz of the word, is
\* returned as new by a forward selection while the word it copies is not.
C21_Witness ==
    /\ Len(word) = 2 /\ word[2].quiz_id = 1
    /\ hist.word[1]["forward"].reviewed /\ word[1].repetitions = 1
    /\ word[1].ease_factor = 265
    /\ Sched(word[2], "forward").repetitions = 0
    /\ Sched(word[2], "reverse").repetitions = 0
    /\ resp.op = "anki_cards" /\ resp.status = 200 /\ resp.direction = "forward"
    /\ 2 \in resp.new_cards /\ 1 \notin resp.new_cards

\* The proper ancestors of a folder: the folders reached by following
\* parent_id one or more times.
RECURSIVE AncestorsWithin(_, _)
AncestorsWithin(f, steps) ==
    IF steps = 0 \/ f \notin DOMAIN folder \/ folder[f].parent_id \notin DOMAIN folder THEN {}
    ELSE {folder[f].parent_id} \cup AncestorsWithin(folder[f].parent_id, steps - 1)
Ancestors(f) == AncestorsWithin(f, Len(folder))

FoldersAcyclic ==
    \A f \in DOMAIN folder : f \notin Ancestors(f)

\* An accepted re-parent request changes the parent of the folder it names
\* only, and not to the folder itself or to one of its descendants.
C22_Step ==
    (resp' # resp /\ resp'.op = "update_folder" /\ resp'.status = 200) =>
        \A f \in DOMAIN folder' :
            folder'[f].parent_id # folder[f].parent_id =>
                /\ f = resp'.id
                /\ folder'[f].parent_id # f
                /\ f \notin Ancestors(folder'[f].parent_id)

\* C22 as stated: after any sequence of folder create and folder update
\* requests made one at a time no folder is its own parent or its own
\* ancestor, and a re-parent request that would make a folder a descendant
\* of itself is answered with an error and changes no parent.
C22_FolderHierarchyAcyclic == []FoldersAcyclic /\ [][C22_Step]_vars

\* C23: a cancel-processing request is answered 200 only when the status of
\* the quiz is 'pending' or 'processing', and it then stores status
\* 'cancelled' with the cancellation message; on a quiz in any other status
\* it is answered with an error and no row changes.
C23_Step ==
    (resp' # resp /\ resp'.op = "cancel_processing") =>
        LET q == resp'.quiz_id IN
        /\ resp'.status = 200 =>
              /\ q \in DOMAIN quiz
              /\ quiz[q].processing_status \in {"pending", "processing"}
              /\ quiz'[q].processing_status = "cancelled"
              /\ quiz'[q].processing_message = "cancelled"
        /\ (q \in DOMAIN quiz
              /\ quiz[q].processing_status \notin {"pending", "processing"}) =>
              /\ resp'.status \in {400, 404}
              /\ quiz' = quiz
        /\ UNCHANGED <<word, sentence, worker>>
C23_CancelOnlyWhileActive == [][C23_Step]_vars

\* A second cancel request for a quiz whose import was cancelled and whose
\* worker has returned is refused, and the quiz stays cancelled.
C23_Witness ==
    /\ resp.op = "cancel_processing" /\ resp.status = 400
    /\ worker.pc = "done"
    /\ quiz[resp.quiz_id].processing_status = "cancelled"
    /\ quiz[resp.quiz_id].processing_message = "cancelled"

\* C24 as stated: a step of the import worker of a quiz whose status is
\* 'cancelled' (a cancel request has succeeded) leaves the status
\* 'cancelled' and adds no word.
C24_Step ==
    (WorkerRunning /\ worker' # worker
       /\ quiz[worker.quiz_id].processing_status = "cancelled") =>
        /\ quiz'[worker.quiz_id].processing_status = "cancelled"
        /\ word' = word
C24_CancelIsFinal == [][C24_Step]_vars

\* C25: the commit of a review of one direction of a card leaves the stored
\* schedule of the other direction as it is, also when the row the request
\* loaded is older than a commit made to the other direction since; and when
\* no review of its own direction was committed since it loaded the row, it
\* stores the result of its review of the stored schedule of its direction.
C25_Step ==
    \A i \in 1..MaxInFlight :
        (reqs[i].pc = "computed" /\ reqs'[i] = Idle) =>
            LET q == reqs[i]
                d == Dir(q.direction)
                before == Table(q.kind)[q.id]
                after == IF q.kind = "sentence" THEN sentence'[q.id] ELSE word'[q.id]
                at == q.result.due_date - q.result.interval
            IN /\ Sched(after, Other(d)) = Sched(before, Other(d))
               /\ Sched(before, d) = Sched(q.loaded, d) =>
                     Sched(after, d) = review_result(before, q.rating, q.direction, at)
C25_DirectionsDoNotInterfere == [][C25_Step]_vars

\* A forward and a reverse review of word 1 overlap: both loaded the new
\* row, the forward one has been committed, and the reverse one has
\* computed its result from its older copy of the row and is about to
\* commit.
C25_Witness ==
    /\ Len(log) = 1
    /\ log[1] = [kind |-> "word", id |-> 1, direction |-> "forward", rating |-> 3, at |-> 0]
    /\ Sched(word[1], "forward") =
          [ease_factor |-> 250, interval |-> 1, repetitions |-> 1, due_date |-> 1]
    /\ \E i \in 1..MaxInFlight :
          /\ reqs[i].pc = "computed"
          /\ reqs[i].kind = "word" /\ reqs[i].id = 1 /\ reqs[i].direction = "reverse"
          /\ reqs[i].loaded.repetitions = 0
          /\ reqs[i].result.repetitions = 1

\* C26: a running import worker eventually returns, and when it has
\* returned the status of its quiz is 'completed', 'error' or 'cancelled'
\* (under SpecImportFair: the thread keeps running and each external call
\* returns or raises).
C26_ImportEnds ==
    WorkerRunning ~>
        (worker.pc = "done"
           /\ quiz[worker.quiz_id].processing_status \in {"completed", "error", "cancelled"})

\* An image import has run through the OCR and the text import and ended
\* with a saved word and status 'completed'.
C26_Witness ==
    /\ worker.pc = "done" /\ worker.kind = "image"
    /\ quiz[worker.quiz_id].processing_status = "completed"
    /\ Len(word) = 1 /\ word[1].quiz_id = worker.quiz_id

\* The cards of one table and one quiz that the selection rules class c in
\* the forward direction now.
ForwardCards(kind, q, c) ==
    {i \in DOMAIN Table(kind) :
        Table(kind)[i].quiz_id = q /\ Classify(Sched(Table(kind)[i], "forward"), now) = c}
ForwardCount(kind, q, c) == Cardinality(ForwardCards(kind, q, c))

\* C27: at one state and one clock reading, a forward due-card selection for
\* a quiz returns as new_cards and due_cards the sets ForwardCards of the
\* quiz, and the statistics of a user report, for each of the user's quizzes
\* with a due card, the sizes of these sets, and as totals their sums over
\* all quizzes of the user.
C27_Step ==
    /\ (resp' # resp /\ resp'.op = "anki_cards" /\ resp'.status = 200
          /\ resp'.direction = "forward") =>
          LET kind == IF resp'.mode = "sentences" THEN "sentence" ELSE "word" IN
          /\ resp'.new_cards = ForwardCards(kind, resp'.quiz_id, "new")
          /\ resp'.due_cards = ForwardCards(kind, resp'.quiz_id, "due")
    /\ (resp' # resp /\ resp'.op = "anki_stats") =>
          LET Qs == {q \in DOMAIN quiz : quiz[q].user_id = resp'.user}
              Total(kind, c) == Sum([q \in Qs |-> ForwardCount(kind, q, c)], Qs)
          IN /\ resp'.total_due_words = Total("word", "due")
             /\ resp'.total_new_words = Total("word", "new")
             /\ resp'.total_due_sentences = Total("sentence", "due")
             /\ resp'.total_new_sentences = Total("sentence", "new")
             /\ resp'.total_due = Total("word", "due") + Total("sentence", "due")
             /\ resp'.total_new = Total("word", "new") + Total("sentence", "new")
             /\ resp'.quizzes_with_due =
                   {[id |-> q,
                     due_words |-> ForwardCount("word", q, "due"),
                     due_sentences |-> ForwardCount("sentence", q, "due"),
                     new_words |-> ForwardCount("word", q, "new"),
                     new_sentences |-> ForwardCount("sentence", q, "new")] :
                    q \in {x \in Qs : ForwardCount("word", x, "due") > 0
                                        \/ ForwardCount("sentence", x, "due") > 0}}
C27_StatsAgreeWithSelection == [][C27_Step]_vars

\* Statistics of user 1 at time 1, after word 1 (quiz 1) and word 2 (quiz 2)
\* were rated Good at time 0, word 1 forward and word 2 in reverse: quiz 1
\* has one due word and one new sentence, quiz 2 has no due card and is not
\* listed, and the totals count the new word and the new sentence of quiz 2.
C27_Witness ==
    /\ resp.op = "anki_stats" /\ resp.user = 1 /\ now = 1
    /\ word[1].repetitions = 1 /\ word[2].repetitions_reverse = 1
    /\ word[2].repetitions = 0
    /\ resp.total_due_words = 1 /\ resp.total_new_words = 1
    /\ resp.total_due_sentences = 0 /\ resp.total_new_sentences = 2
    /\ resp.quizzes_with_due =
          {[id |-> 1, due_words |-> 1, due_sentences |-> 0,
            new_words |-> 0, new_sentences |-> 1]}

\* C28: a committed review rated 2, 3 or 4 of a card-direction, at any point
\* of a run of reviews and resets that starts at the creation of the card,
\* stores and returns an interval that is not smaller than the interval
\* stored before it.
C28_Step ==
    \A cd \in CardDirs :
        (History(cd)' # History(cd) /\ History(cd)'.last = "pass") =>
            /\ Stored(cd)'.interval >= Stored(cd).interval
            /\ resp'.interval = Stored(cd)'.interval
C28_PassNeverShortens == [][C28_Step]_vars

\* The fourth review in a row rated 2, 3 or 4 since the creation of word 1,
\* with no reset, has stored an interval of thirty days or more.
C28_Witness ==
    /\ ReviewOk(resp) /\ counts.resets = 0
    /\ hist.word[1]["forward"].passes = 4
    /\ word[1].repetitions = 4
    /\ word[1].interval >= 30

\* C29: while time keeps passing, the forward direction of word 1, once it
\* has repetitions > 0, becomes due (due_date <= now) unless it is reviewed
\* or reset first; a card-direction that is due stays due at every step that
\* is not a review or a reset of it; every selection for its quiz, table and
\* direction returns a due card-direction in due_cards; and every selection
\* made while the last write of a card-direction is a review rated Again
\* returns it in new_cards.
C29_Comes ==
    \A n \in 0..MaxReviews :
        (counts.reviews = n /\ word[1].repetitions > 0)
            ~> (word[1].due_date <= now \/ counts.reviews # n)

C29_Step ==
    /\ \A cd \in CardDirs :
          (Classify(Stored(cd), now) = "due" /\ History(cd)' = History(cd)) =>
              Classify(Stored(cd)', now') = "due"
    /\ (resp' # resp /\ resp'.op = "anki_cards" /\ resp'.status = 200) =>
          \A i \in DOMAIN word :
              (resp'.mode = "words" /\ word[i].quiz_id = resp'.quiz_id) =>
                  /\ Classify(Sched(word[i], Dir(resp'.direction)), now) = "due" =>
                        i \in resp'.due_cards
                  /\ hist.word[i][Dir(resp'.direction)].last = "again" =>
                        i \in resp'.new_cards

C29_ReviewedCardsComeBack == C29_Comes /\ [][C29_Step]_vars

\* Word 1 was rated Easy at time 0 and, when it was due at time 4, Easy
\* again; ten days later, at time 14, it is due and a selection returns it
\* in due_cards.
C29_Witness ==
    /\ now = 14 /\ counts.reviews = 2
    /\ Sched(word[1], "forward") =
          [ease_factor |-> 280, interval |-> 10, repetitions |-> 2, due_date |-> 14]
    /\ hist.word[1]["forward"].at = 4
    /\ resp.op = "anki_cards" /\ resp.status = 200
    /\ 1 \in resp.due_cards

\* C30: a review request for a word or a sentence that does not exist is
\* answered 404, one for a card of a quiz of another user 403, whatever the
\* rating and the direction of the body, and neither changes a row of the
\* word or the sentence table.
C30_Step ==
    /\ \A u \in Users, w \in 1..(Len(word) + 1) :
          (w \notin DOMAIN word \/ quiz[word[w].quiz_id].user_id # u) =>
              \A r \in Ratings, d \in DirectionArgs :
                  api_review_word(u, w, r, d) =>
                      /\ resp'.status = IF w \in DOMAIN word THEN 403 ELSE 404
                      /\ word' = word /\ sentence' = sentence
    /\ \A u \in Users, i \in 1..(Len(sentence) + 1) :
          (i \notin DOMAIN sentence \/ quiz[sentence[i].quiz_id].user_id # u) =>
              \A r \in Ratings, d \in DirectionArgs :
                  api_review_sentence(u, i, r, d) =>
                      /\ resp'.status = IF i \in DOMAIN sentence THEN 403 ELSE 404
                      /\ word' = word /\ sentence' = sentence
C30_OnlyOwnerReviews == [][C30_Step]_vars

\* Word 1 was rated Good by its owner at time 0; the review request another
\* user then made for it was answered 403 and the schedule of the word is as
\* the owner's review left it.
C30_Witness ==
    /\ resp = [op |-> "review_word", status |-> 403]
    /\ counts.reviews = 1
    /\ Sched(word[1], "forward") =
          [ease_factor |-> 250, interval |-> 1, repetitions |-> 1, due_date |-> 1]
    /\ Sched(word[2], "forward") =
          [ease_factor |-> 250, interval |-> 0, repetitions |-> 0, due_date |-> 0]
    /\ Sched(sentence[1], "forward") =
          [ease_factor |-> 250, interval |-> 0, repetitions |-> 0, due_date |-> 0]
====
